---- MODULE Spec2Model ----
(***************************************************************************)
(* A model of the H4RP13 bot: the retry wrapper (lib/utils.js withRetry),  *)
(* the API client built on it (api/client.js), the scan workflow           *)
(* (api/scan.js performScanWorkflow with api/leaderboard.js) and the batch *)
(* runner (index.js processWallet / processAllWallets).                    *)
(*                                                                         *)
(* JavaScript runs the code between two awaits without interruption, so    *)
(* one action is the code from the completion of one await (an HTTP        *)
(* request or a sleep) to the start of the next one.                       *)
(*                                                                         *)
(* Three entry points are modelled, each with its own specification:       *)
(*   SpecRetry     withRetry called with any maxRetries and delayMs        *)
(*   SpecWorkflow  performScanWorkflow called with any arguments           *)
(*   Spec          processAllWallets, one batch over the wallet list       *)
(* and SpecAny is the scan reached through either of the last two.         *)
(***************************************************************************)
EXTENDS Integers, Sequences, FiniteSets, TLC

\* ---------------------------------------------------------------- bounds
\* withRetry is explored for maxRetries in 0..MaxRetriesBound
MaxRetriesBound == 2
\* delayMs is one of 0, DelayUnit, ..., MaxDelayUnits * DelayUnit
DelayUnit == 2500
MaxDelayUnits == 2
\* personalPoints of a snapshot is in 0..MaxPoints
MaxPoints == 1
\* a batch has 1..MaxWallets wallets
MaxWallets == 2
\* config.general.maxRetries in the workflow and batch specifications
MaxConfigRetries == 1
\* a proxy line given to parseProxy has a body of 0..MaxProxyTokens tokens
MaxProxyTokens == 7
\* assignProxiesToWallets alone: 0..MaxAssignWallets wallets, 0..MaxProxies lines
MaxAssignWallets == 3
MaxProxies == 2
\* the batch with proxies: proxy.txt has 0..MaxBatchProxies lines
MaxBatchProxies == 1
\* main(): pk.txt has 1..MaxMainWallets keys
MaxMainWallets == 2
\* Math.random() returns one of 0, 1/RandomSteps, ..., (RandomSteps - 1)/RandomSteps
RandomSteps == 2
\* the jitter is explored for delayBetweenWallets of 30000..30000 + MaxBaseOffset
MaxBaseOffset == 1

\* ---------------------------------------------------- program constants
\* lib/utils.js:65   const currentDelay = delayMs + (attempt * 500)
RetryStepMs == 500
\* lib/utils.js:53   await sleep(delayMs * 2)
RateLimitFactor == 2
\* README config.json: "retryDelay": 5000
ConfigRetryDelay == 5000
\* README config.json: "delayBetweenWallets": 30000
ConfigDelayBetweenWallets == 30000
\* lib/logger.js:37  const MAX_REMEMBERED_LOGS = 5
MaxRememberedLogs == 5

VARIABLES
  config,            \* config.json: maxRetries, retryDelay, delayBetweenWallets, useProxy,
                     \* scan.enabled, scan.forceRescan
  proxies,           \* proxy.txt as readProxies() returns it: the raw proxy lines
  walletsWithProxies,\* assignProxiesToWallets: the list built so far, then its result
  proxyString,       \* parseProxy: its argument
  parsed,            \* parseProxy: what it returned
  runs,              \* main: per trigger, the batch it started (position, wallet, count)
  reported,          \* main: the outcome and summary lines of the last step
  timerPending,      \* main: the setTimeout of index.js:149 is set and has not fired
  lastLogMessages,   \* logger: the keys isDuplicateLog remembers
  lastEvent,         \* main: whether the last step started or ended a batch
  logged,            \* logger: the last call of log(), lastLogMessages before it, its fate
  entry,             \* which entry point runs: "retry", "workflow" or "batch"
  pc,                \* the await the program is suspended at
  op,                \* the remote operation whose client.post is running
  sent,              \* the axios configuration of the client that sends the request
  calls,             \* the remote operations issued for the current identity, in order
  attempt,           \* withRetry: the loop variable
  invoked,           \* withRetry: how many times fn() has been called in this call
  errors,            \* withRetry: the errors caught in this call, in order
  sleeps,            \* withRetry: the sleeps performed in this call, in order
  thrown,            \* withRetry: the error it threw, NoError if none
  returned,          \* withRetry called alone: what fn resolved with and what it returned
  forceScan,         \* performScanWorkflow: argument forceScan
  existing,          \* performScanWorkflow: argument existingLeaderboardInfo
  trackingResp,      \* performScanWorkflow: the get-tracking-id response, "none" before it
  dashboardResp,     \* performScanWorkflow: the get-basic-dashboard response, "none" before it
  leaderboardInfo,   \* performScanWorkflow: the pre-action snapshot
  scanThrew,         \* performScanWorkflow: performWalletScan raised (suppressed)
  updatedLeaderboard,\* performScanWorkflow: the post-action snapshot
  wfResult,          \* performScanWorkflow: "none", "skipped", "success", "failure", "raised"
  pwInfo,            \* processWallet: leaderboardInfo, its own first snapshot
  nWallets,          \* processAllWallets: walletsWithProxies.length
  idx,               \* processAllWallets: the loop variable i
  successCount,      \* processAllWallets: successCount
  walletDelay,       \* processAllWallets: delay, the sleep between wallets in progress (0: none)
  sleepCount,        \* processAllWallets: the sleeps between wallets started so far
  results,           \* per processWallet call: its wallet, what it did and returned
  summary            \* the "All wallets processed. Success: a/b" line, <<>> if not logged

retryVars == <<attempt, invoked, errors, sleeps, thrown>>
callVars == <<op, sent, calls, attempt, invoked, errors, sleeps, thrown>>
argVars == <<forceScan, existing>>
wfVars == <<trackingResp, dashboardResp, leaderboardInfo, scanThrew,
           updatedLeaderboard, wfResult>>
batchVars == <<pwInfo, idx, successCount, walletDelay, sleepCount, results, summary>>
inputVars == <<config, entry, nWallets, proxies>>
parseVars == <<proxyString, parsed>>
mainVars == <<runs, reported, timerPending, lastLogMessages, lastEvent>>
otherVars == <<walletsWithProxies, parseVars, mainVars, logged, returned>>
vars == <<config, proxies, walletsWithProxies, proxyString, parsed,
          runs, reported, timerPending, lastLogMessages, lastEvent, logged,
          entry, pc, op, sent, calls, attempt, invoked, errors, sleeps, thrown, returned,
          forceScan, existing, trackingResp, dashboardResp, leaderboardInfo, scanThrew,
          updatedLeaderboard, wfResult, pwInfo, nWallets, idx, successCount,
          walletDelay, sleepCount,
          results, summary>>
\* what main's steps leave alone
modelVars == <<callVars, argVars, wfVars, batchVars, inputVars, walletsWithProxies,
              parseVars, logged, returned>>

\* ------------------------------------------------------------ data model
\* An axios error: error.response.status (0: no response) and error.code.
Err(s, c) == [status |-> s, code |-> c]
NoError == Err(0, "NONE")
HttpErrors ==
  { Err(429, "NONE"), Err(500, "NONE"), Err(404, "NONE"),
    Err(0, "ECONNRESET"), Err(0, "ECONNREFUSED"), Err(0, "ETIMEDOUT") }

\* A get-leaderboard-info response body.  empty: no body at all; hasScore:
\* the body has a personalPoints field.
Snapshot(e, s, p, d) ==
  [empty |-> e, hasScore |-> s, personalPoints |-> p, hasDoneDailyScan |-> d]
NoSnapshot == Snapshot(TRUE, FALSE, 0, FALSE)
Snapshots ==
  { Snapshot(FALSE, TRUE, p, d) : p \in 0..MaxPoints, d \in BOOLEAN }
    \cup { Snapshot(FALSE, FALSE, 0, d) : d \in BOOLEAN }
StatusResponses == Snapshots \cup {NoSnapshot}
TrackingResponses == {"token", "noToken", "empty"}
BodyResponses == {"body", "empty"}

DelayChoices == { k * DelayUnit : k \in 0..MaxDelayUnits }
\* the values of Math.random(), as numerators over RandomSteps
RandomDraws == 0..(RandomSteps - 1)
BaseDelays == { ConfigDelayBetweenWallets + k : k \in 0..MaxBaseOffset }
\* A batch is identified by what started it.  One batch per trigger is
\* followed at a time; the startup batch and the timer's batch are the only
\* ones of their kind.
Triggers == {"startup", "timer", "cron"}
IdleRun == [pc |-> "idle", i |-> 0, successCount |-> 0]
\* what a step of main's batches reported: the outcome line of the wallet it
\* finished and the summary line of the batch it ended, each written out or
\* held back by the logger
\* withRetry has not returned
NoReturn == [fn |-> "none", value |-> "none"]
\* no call of log() yet
NoLog == [type |-> "none", address |-> <<>>, message |-> <<>>, before |-> <<>>,
          written |-> FALSE]
NothingReported == [outcome |-> "none", written |-> TRUE, summary |-> "none"]
\* main(): the errors of a status request; its bodies (none, or the daily
\* scan done, on an account without points); and what stands for the delay or
\* the date embedded in a log line: two lines carry the same one or not
MainErrors == { Err(429, "NONE"), Err(0, "ECONNRESET") }
MainResponses == { NoSnapshot, Snapshot(FALSE, TRUE, 0, TRUE), Snapshot(FALSE, FALSE, 0, TRUE) }
LogTags == {1, 2}

\* ------------------------------------------------------- lib/proxy.js
\* A proxy line is a scheme prefix ("" when there is none) followed by a body
\* of tokens.  A token stands for one or more characters: "host" for letters,
\* "80" for the two digits 8 0, ":" and "@" for themselves; a body is the
\* concatenation of its tokens, so <<"80", "80">> is the text 8080.
UrlSchemes == {"http://", "https://", "socks://", "socks4://", "socks5://"}
SocksSchemes == {"socks://", "socks4://", "socks5://"}
BodyTokens == {"host", "80", ":", "@"}
BoundedSeq(S, n) == UNION { [1..k -> S] : k \in 0..n }
ProxyLine(scheme, body) == [scheme |-> scheme, body |-> body]
\* every proxy line with one of the five schemes or none and at most n tokens
ProxyStrings(n) ==
  { ProxyLine(s, b) : s \in UrlSchemes \cup {""}, b \in BoundedSeq(BodyTokens, n) }

\* undefined, for a piece of text that a destructuring did not bind
UndefinedText == <<"undefined">>
\* JavaScript's !x for a piece of text
Falsy(text) == text = <<>> \/ text = UndefinedText

IndexOf(text, tok) ==
  IF \E n \in 1..Len(text) : text[n] = tok
    THEN CHOOSE n \in 1..Len(text) : text[n] = tok /\ \A m \in 1..(n - 1) : text[m] # tok
    ELSE 0
LastIndexOf(text, tok) ==
  IF \E n \in 1..Len(text) : text[n] = tok
    THEN CHOOSE n \in 1..Len(text) : text[n] = tok /\ \A m \in (n + 1)..Len(text) : text[m] # tok
    ELSE 0

\* String.prototype.split(sep)
RECURSIVE Split(_, _)
Split(text, sep) ==
  LET k == IndexOf(text, sep) IN
  IF k = 0 THEN <<text>>
  ELSE <<SubSeq(text, 1, k - 1)>> \o Split(SubSeq(text, k + 1, Len(text)), sep)

\* const [a, b] = parts: the n-th element, undefined past the end
Part(parts, n) == IF n <= Len(parts) THEN parts[n] ELSE UndefinedText

DigitsOnly(text) == text # <<>> /\ \A n \in 1..Len(text) : text[n] = "80"

\* new URL(proxyString) for scheme://body (lib/proxy.js:55-58, 71-74), after
\* the URL Standard that Node implements.  Everything before the last "@" is
\* the userinfo, split at its first ":"; what follows is host[:port].  The
\* parser fails on an empty host before a ":", on a missing host of a special
\* scheme (http, https) or after credentials, on a port that is not all digits
\* or is above 65535 (three "80" tokens and more), and on an all-digit host of
\* a special scheme above 2^32-1 (five tokens and more).  url.port is the
\* empty string when the port is the default of the scheme, 80 for http.
UrlParse(scheme, body) ==
  LET special == scheme \in {"http://", "https://"}
      lastAt == LastIndexOf(body, "@")
      userinfo == SubSeq(body, 1, lastAt - 1)
      hostport == SubSeq(body, lastAt + 1, Len(body))
      ucolon == IndexOf(userinfo, ":")
      hcolon == IndexOf(hostport, ":")
      hostText == IF hcolon = 0 THEN hostport ELSE SubSeq(hostport, 1, hcolon - 1)
      portText == IF hcolon = 0 THEN <<>> ELSE SubSeq(hostport, hcolon + 1, Len(hostport))
  IN [ failed |->
         \/ (lastAt > 0 /\ hostport = <<>>)
         \/ (hcolon > 0 /\ hostText = <<>>)
         \/ (special /\ hostText = <<>>)
         \/ (special /\ DigitsOnly(hostText) /\ Len(hostText) >= 5)
         \/ (portText # <<>> /\ ~DigitsOnly(portText))
         \/ (DigitsOnly(portText) /\ Len(portText) >= 3),
       username |-> IF ucolon = 0 THEN userinfo ELSE SubSeq(userinfo, 1, ucolon - 1),
       password |-> IF ucolon = 0 THEN <<>> ELSE SubSeq(userinfo, ucolon + 1, Len(userinfo)),
       hostname |-> hostText,
       port |-> IF scheme = "http://" /\ portText = <<"80">> THEN <<>> ELSE portText ]

NoAuth == [defined |-> FALSE, username |-> UndefinedText, password |-> UndefinedText]
Auth(u, p) == [defined |-> TRUE, username |-> u, password |-> p]
\* what parseProxy returns: null, or { protocol, auth, host, port }
ParseFailure ==
  [isNull |-> TRUE, protocol |-> "", auth |-> NoAuth, host |-> <<>>, port |-> <<>>]
Descriptor(protocol, auth, host, port) ==
  [isNull |-> FALSE, protocol |-> protocol, auth |-> auth, host |-> host, port |-> port]

\* url.protocol.replace(':', '')
ProtocolOf(scheme) ==
  CASE scheme = "http://" -> "http"
    [] scheme = "https://" -> "https"
    [] scheme = "socks://" -> "socks"
    [] scheme = "socks4://" -> "socks4"
    [] scheme = "socks5://" -> "socks5"
    [] OTHER -> ""

\* lib/proxy.js:59-67, 75-81  what the two branches that go through new URL
\* take from the url object
FromUrlObject(scheme, url) ==
  [ threw |-> url.failed,
    protocol |-> ProtocolOf(scheme),
    auth |-> IF url.username # <<>> /\ url.password # <<>>
               THEN Auth(url.username, url.password) ELSE NoAuth,
    host |-> url.hostname,
    port |-> url.port ]
\* lib/proxy.js:54-81  the two branches that go through new URL
FromUrl(line) == FromUrlObject(line.scheme, UrlParse(line.scheme, line.body))

\* lib/proxy.js:84-103  "user:pass@host:port" and "host:port"
FromBare(body) ==
  IF IndexOf(body, "@") > 0
    THEN LET parts == Split(body, "@")
             authPart == Split(Part(parts, 1), ":")
             hostPart == Split(Part(parts, 2), ":")
         IN [ threw |-> FALSE, protocol |-> "http",
              auth |-> Auth(Part(authPart, 1), Part(authPart, 2)),
              host |-> Part(hostPart, 1), port |-> Part(hostPart, 2) ]
    ELSE IF IndexOf(body, ":") > 0
      THEN LET hostPart == Split(body, ":")
           IN [ threw |-> FALSE, protocol |-> "http", auth |-> NoAuth,
                host |-> Part(hostPart, 1), port |-> Part(hostPart, 2) ]
      ELSE [ threw |-> FALSE, protocol |-> "http", auth |-> NoAuth,
             host |-> UndefinedText, port |-> UndefinedText ]

\* lib/proxy.js:105-115  the check of host and port, the return and the
\* catch: an error of new URL and the 'Invalid proxy format' error are both
\* turned into null.
CheckedDescriptor(d) ==
  IF d.threw \/ Falsy(d.host) \/ Falsy(d.port)
    THEN ParseFailure
    ELSE Descriptor(d.protocol, d.auth, d.host, d.port)
\* lib/proxy.js:48-116  parseProxy
ParseProxy(line) ==
  CheckedDescriptor(IF line.scheme \in UrlSchemes THEN FromUrl(line)
                    ELSE FromBare(line.body))

\* A proxy agent, null, and the httpAgent of a configuration that sets none.
Agent(kind, url) == [kind |-> kind, proxyUrl |-> url]
NullAgent == Agent("null", <<>>)
NoAgent == Agent("undefined", <<>>)

\* lib/proxy.js:126-153  the agent built for what parseProxy returned
AgentFor(p) ==
  IF p.isNull THEN NullAgent
  ELSE LET proxyUrl ==
             IF p.auth.defined
               THEN <<p.protocol, "://">> \o p.auth.username \o <<":">> \o p.auth.password
                      \o <<"@">> \o p.host \o <<":">> \o p.port
               ELSE <<p.protocol, "://">> \o p.host \o <<":">> \o p.port
       IN IF p.protocol \in {"socks", "socks4", "socks5"}
            THEN Agent("SocksProxyAgent", proxyUrl)
            ELSE Agent("HttpsProxyAgent", proxyUrl)
\* lib/proxy.js:123-158  createProxyAgent
CreateProxyAgent(line) == AgentFor(ParseProxy(line))

\* The proxy lines of the assignment specifications: three that yield an
\* agent, one whose port is the default of its scheme and one without a port.
AssignLines ==
  { ProxyLine("", <<"host", ":", "80", "80">>),
    ProxyLine("socks5://", <<"host", ":", "80">>),
    ProxyLine("http://", <<"host", ":", "host", "@", "host", ":", "80", "80">>),
    ProxyLine("http://", <<"host", ":", "80">>),
    ProxyLine("", <<"host">>) }
NoProxyLine == ProxyLine("undefined", <<>>)

\* an element of walletsWithProxies: the wallet (its position in the list of
\* getWallets) with proxy, proxyString and proxyIp
WalletWith(w, agent, line, ip) ==
  [wallet |-> w, proxy |-> agent, proxyString |-> line, proxyIp |-> ip]
\* lib/proxy.js:191, 198  wallets.map(wallet => ({ ...wallet, proxy: null }))
WithoutProxies(n) == [w \in 1..n |-> WalletWith(w, NullAgent, NoProxyLine, "undefined")]

\* lib/proxy.js:206  proxies[i % proxies.length], i counted from 0.  (Faulty
\* variant: no cycling, the list is indexed by i and stays on its last line.)
ProxyForClamped(i) == proxies[IF i + 1 <= Len(proxies) THEN i + 1 ELSE Len(proxies)]
ProxyFor(i) == proxies[(i % Len(proxies)) + 1]

\* lib/proxy.js:203-226  the loop from the head of iteration Len(out) up to
\* its next await (checkIpWithProxy, called only for a wallet with an agent)
\* or to its end: a wallet without an agent is pushed at once.
RECURSIVE AssignLoop(_)
AssignLoop(out) ==
  LET i == Len(out) IN
  IF i >= nWallets THEN out
  ELSE IF CreateProxyAgent(ProxyFor(i)) # NullAgent THEN out
  ELSE AssignLoop(Append(out, WalletWith(i + 1, NullAgent, ProxyFor(i), "null")))

\* lib/proxy.js:187-201  assignProxiesToWallets up to its first await or its
\* return.  (Faulty variant: config.general.useProxy is not consulted.)
AssignProxiesIgnoringConfig ==
  IF proxies = <<>> THEN WithoutProxies(nWallets) ELSE AssignLoop(<<>>)
AssignProxiesToWallets ==
  IF ~config.useProxy \/ proxies = <<>> THEN WithoutProxies(nWallets) ELSE AssignLoop(<<>>)

\* ------------------------------------------------------- api/client.js
\* config.harpie.headers: the documented config.json has none
ConfigHeaders == {}
\* api/client.js:13-40  the configuration createApiClient hands to
\* axios.create, with the options every caller passes ({}).  requestId is
\* generated (line 25) and appears nowhere in the configuration.
CreateApiClient(walletData) ==
  LET requestId == "uuidv4"
      headers == ConfigHeaders \cup {"Cache-Control", "Pragma"}
      axiosConfig == [baseURL |-> "baseUrl", timeout |-> "requestTimeout",
                      headers |-> headers, httpAgent |-> NoAgent, httpsAgent |-> NoAgent]
  IN IF config.useProxy /\ walletData.proxy # NullAgent
       THEN [axiosConfig EXCEPT !.httpAgent = walletData.proxy,
                                !.httpsAgent = walletData.proxy]
       ELSE axiosConfig
\* nothing sent yet
NoRequest == [baseURL |-> "", timeout |-> "", headers |-> {},
              httpAgent |-> NoAgent, httpsAgent |-> NoAgent]

\* ------------------------------------------------------------- withRetry
\* lib/utils.js:39  if (attempt > maxRetries) throw error;  the error's
\* shape plays no part in the decision.  (Faulty variants: a 4xx other than
\* 429 is rethrown at once; the test is made one attempt late.)
ShouldRethrowClassified(error, att, maxRetries) ==
  \/ att > maxRetries
  \/ (error.status >= 400 /\ error.status < 500 /\ error.status # 429)
ShouldRethrowOneLate(error, att, maxRetries) == att > maxRetries + 1
ShouldRethrow(error, att, maxRetries) == att > maxRetries

\* lib/utils.js:43-66  the sleep after failed attempt att.  (Faulty variants:
\* no special case for 429; the attempt counted from 0.)
RetryDelayLinearOnly(error, att, delayMs) == delayMs + att * RetryStepMs
RetryDelayFromZero(error, att, delayMs) ==
  IF error.code \in {"ECONNRESET", "ECONNREFUSED", "ETIMEDOUT"}
    THEN delayMs + (att - 1) * RetryStepMs
    ELSE IF error.status = 429
      THEN delayMs * RateLimitFactor
      ELSE delayMs + (att - 1) * RetryStepMs
RetryDelayFor(error, att, delayMs) ==
  IF error.code \in {"ECONNRESET", "ECONNREFUSED", "ETIMEDOUT"}
    THEN delayMs + att * RetryStepMs
    ELSE IF error.status = 429
      THEN delayMs * RateLimitFactor
      ELSE delayMs + att * RetryStepMs

\* lib/utils.js:40  throw error: the error of the attempt that just failed.
\* (Faulty variant: the first error caught.)
ThrownErrorFirst(errs) == errs[1]
ThrownError(errs) == errs[Len(errs)]

\* The walletData of the identity being processed (index.js:90); for
\* withRetry or the workflow called alone, the one wallet of the call.
\* (Faulty variant: the loop stays on the first wallet.)
WalletDataFirst == walletsWithProxies[1]
WalletData == walletsWithProxies[idx + 1]

\* api/client.js:129-141 post -> withRetry(fn, maxRetries, retryDelay):
\* the loop starts, attempt = 1, and the first request is sent.
BeginRequest(o, issued, walletData) ==
  /\ pc' = "request"
  /\ op' = o
  /\ sent' = CreateApiClient(walletData)
  /\ calls' = Append(issued, o)
  /\ attempt' = 1
  /\ invoked' = 1
  /\ errors' = <<>>
  /\ sleeps' = <<>>
  /\ thrown' = NoError

\* The request of the current attempt fails and attempts remain: the catch
\* block logs, then sleeps (lib/utils.js:35-66).
RequestFails(e) ==
  /\ pc = "request"
  /\ ~ShouldRethrow(e, attempt, config.maxRetries)
  /\ errors' = Append(errors, e)
  /\ sleeps' = Append(sleeps, RetryDelayFor(e, attempt, config.retryDelay))
  /\ pc' = "retrySleep"
  /\ UNCHANGED <<attempt, invoked, thrown, op, sent, calls>>
  /\ UNCHANGED <<inputVars, otherVars, argVars, wfVars, batchVars>>

\* The sleep ends: continue / fall out of the catch block, attempt++, and
\* fn() is called again (lib/utils.js:32-34).
RetrySleepEnds ==
  /\ pc = "retrySleep"
  /\ attempt' = attempt + 1
  /\ invoked' = invoked + 1
  /\ pc' = "request"
  /\ UNCHANGED <<errors, sleeps, thrown, op, sent, calls>>
  /\ UNCHANGED <<inputVars, otherVars, argVars, wfVars, batchVars>>

\* withRetry rethrows the error e of the attempt that just failed
\* (lib/utils.js:39-41); the remote operation stays the last one issued.
RetryThrows(e) ==
  /\ pc = "request"
  /\ ShouldRethrow(e, attempt, config.maxRetries)
  /\ errors' = Append(errors, e)
  /\ thrown' = ThrownError(Append(errors, e))
  /\ UNCHANGED <<op, sent, calls, attempt, invoked, sleeps>>

\* ------------------------------------------- entry point 1: withRetry
StartRetry ==
  /\ pc = "start"
  /\ entry = "retry"
  /\ BeginRequest("direct", calls, WalletData)
  /\ UNCHANGED <<inputVars, otherVars, argVars, wfVars, batchVars>>

\* return await fn() (lib/utils.js:34): fn resolved with value in the
\* current attempt and withRetry returns it.  (Faulty variant: lastError is
\* consulted on the way out, and after a failed attempt the value is lost.)
DirectReturnsAfterFailureLost(value) ==
  /\ entry = "retry"
  /\ pc = "request"
  /\ op = "direct"
  /\ pc' = "done"
  /\ returned' = [fn |-> value, value |-> IF errors = <<>> THEN value ELSE "undefined"]
  /\ UNCHANGED <<callVars, inputVars, walletsWithProxies, parseVars, mainVars, logged,
                 argVars, wfVars, batchVars>>
DirectReturns(value) ==
  /\ entry = "retry"
  /\ pc = "request"
  /\ op = "direct"
  /\ pc' = "done"
  /\ returned' = [fn |-> value, value |-> value]
  /\ UNCHANGED <<callVars, inputVars, walletsWithProxies, parseVars, mainVars, logged,
                 argVars, wfVars, batchVars>>

DirectThrows(e) ==
  /\ entry = "retry"
  /\ op = "direct"
  /\ RetryThrows(e)
  /\ pc' = "done"
  /\ UNCHANGED <<inputVars, otherVars, argVars, wfVars, batchVars>>

\* ------------------------------------------------ the batch loop's tail
\* index.js:24-68  what processWallet returns: false only from the outer
\* catch, which only the first getLeaderboardInfo can reach; an error of the
\* scan workflow is caught by the inner catch and the function returns true.
\* (Faulty variant: the outer catch returns true as well.)
ProcessWalletReturnsAlwaysTrue(statusOk, wf) == TRUE
ProcessWalletReturns(statusOk, wf) == statusOk

\* lib/utils.js:17-19  Math.floor(Math.random() * (max - min + 1) + min).
\* min and max are in fifths of a millisecond, so that 0.8 and 1.2 times a
\* whole number of milliseconds are whole numbers; random is the numerator
\* of Math.random() over RandomSteps; the result is in milliseconds.
\* \div rounds down, as Math.floor does.
GetRandomDelay(min, max, random) ==
  (random * (max - min + 5) + min * RandomSteps) \div (5 * RandomSteps)

\* index.js:111-114  config.general.delayBetweenWallets * 0.8 and * 1.2, in
\* fifths of a millisecond
JitterMin(base) == 4 * base
JitterMax(base) == 6 * base

\* index.js:110  whether a sleep follows wallet i of n
SleepFollows(i, n) == i < n - 1

\* index.js:106-120  processWallet returned ret: count it, then either sleep
\* before the next wallet or leave the loop and log the summary.
ProcessWalletEnds(statusOk, wf) ==
  LET ret == ProcessWalletReturns(statusOk, wf) IN
  /\ successCount' = IF ret THEN successCount + 1 ELSE successCount
  /\ results' = Append(results, [wallet |-> WalletData.wallet, statusOk |-> statusOk,
                                 wf |-> wf, ret |-> ret])
  /\ IF SleepFollows(idx, nWallets)
       THEN /\ pc' = "walletSleep"
            /\ idx' = idx
            /\ summary' = summary
            /\ sleepCount' = sleepCount + 1
            /\ \E random \in RandomDraws :
                 walletDelay' = GetRandomDelay(JitterMin(config.delayBetweenWallets),
                                               JitterMax(config.delayBetweenWallets),
                                               random)
       ELSE /\ pc' = "done"
            /\ idx' = idx + 1
            /\ summary' = <<successCount', nWallets>>
            /\ UNCHANGED <<walletDelay, sleepCount>>

\* --------------------------------------------- performScanWorkflow
\* api/scan.js:79  if (!response || !response.trackingId) throw
\* (Faulty variant: only an empty response is rejected.)
InvalidTrackingOnlyEmpty(resp) == resp = "empty"
InvalidTracking(resp) == resp # "token"

\* api/scan.js:148  hasDoneDailyScan && !forceScan && !config.scan.forceRescan
\* (Faulty variant: the early return is missing.)
ShouldSkipNever(info, force, cfgForce) == FALSE
\* (Faulty variant: the forceScan argument is not consulted.)
ShouldSkipIgnoresArgument(info, force, cfgForce) == info.hasDoneDailyScan /\ ~cfgForce
ShouldSkip(info, force, cfgForce) ==
  info.hasDoneDailyScan /\ ~force /\ ~cfgForce

\* api/scan.js:168  updated.personalPoints > leaderboardInfo.personalPoints;
\* a comparison with a missing (undefined) score is false.
PointsIncreased(pre, post) ==
  /\ pre.hasScore
  /\ post.hasScore
  /\ post.personalPoints > pre.personalPoints

\* api/scan.js:169-189  success: the flag is set, or else the points went up
\* (Faulty variant: >= in place of >.)
ScanVerifiedNotLower(pre, post) ==
  \/ post.hasDoneDailyScan
  \/ (pre.hasScore /\ post.hasScore /\ post.personalPoints >= pre.personalPoints)
ScanVerified(pre, post) ==
  \/ post.hasDoneDailyScan
  \/ PointsIncreased(pre, post)

\* performScanWorkflow returns a result or raises (api/scan.js:150, 173-193).
\* Called from processWallet, the result or the error is logged there and
\* processWallet returns (index.js:42-63).
WorkflowEnds(result) ==
  /\ wfResult' = result
  /\ IF entry = "workflow"
       THEN /\ pc' = "done"
            /\ UNCHANGED batchVars
       ELSE /\ ProcessWalletEnds(TRUE, result)
            /\ UNCHANGED pwInfo

\* api/scan.js:147-154  the skip decision on the pre-action snapshot, then
\* getBasicDashboard.
AfterStatus(info) ==
  /\ leaderboardInfo' = info
  /\ IF ShouldSkip(info, forceScan, config.forceRescan)
       THEN /\ WorkflowEnds("skipped")
            /\ UNCHANGED callVars
       ELSE /\ BeginRequest("dashboard", calls, WalletData)
            /\ UNCHANGED <<wfResult, batchVars>>

StartWorkflow ==
  /\ pc = "start"
  /\ entry = "workflow"
  /\ BeginRequest("tracking", calls, WalletData)
  /\ UNCHANGED <<inputVars, otherVars, argVars, wfVars, batchVars>>

\* api/scan.js:66-92 getTrackingId got a response; api/scan.js:139-145: a
\* snapshot handed in by the caller is used, only without one is the status
\* fetched.  (Faulty variant: the status is fetched whatever was handed in.)
TrackingReturnsRefetches(resp) ==
  /\ pc = "request"
  /\ op = "tracking"
  /\ trackingResp' = resp
  /\ IF InvalidTracking(resp)
       THEN /\ WorkflowEnds("raised")
            /\ UNCHANGED <<callVars, leaderboardInfo>>
       ELSE /\ BeginRequest("wfStatus", calls, WalletData)
            /\ UNCHANGED <<leaderboardInfo, wfResult, batchVars>>
  /\ UNCHANGED <<dashboardResp, scanThrew, updatedLeaderboard, inputVars, otherVars, argVars>>
\* (Faulty variant: the body check is made inside the function withRetry
\* repeats, so that an invalid response is retried like a transport error.)
TrackingReturnsRetries(resp) ==
  /\ pc = "request"
  /\ op = "tracking"
  /\ trackingResp' = resp
  /\ IF InvalidTracking(resp)
       THEN IF attempt > config.maxRetries
         THEN /\ WorkflowEnds("raised")
              /\ UNCHANGED <<callVars, leaderboardInfo>>
         ELSE /\ pc' = "retrySleep"
              /\ sleeps' = Append(sleeps, RetryDelayFor(NoError, attempt, config.retryDelay))
              /\ UNCHANGED <<op, sent, calls, attempt, invoked, errors, thrown>>
              /\ UNCHANGED <<leaderboardInfo, wfResult, batchVars>>
       ELSE IF existing.empty
         THEN /\ BeginRequest("wfStatus", calls, WalletData)
              /\ UNCHANGED <<leaderboardInfo, wfResult, batchVars>>
         ELSE AfterStatus(existing)
  /\ UNCHANGED <<dashboardResp, scanThrew, updatedLeaderboard, inputVars, otherVars, argVars>>
TrackingReturns(resp) ==
  /\ pc = "request"
  /\ op = "tracking"
  /\ trackingResp' = resp
  /\ IF InvalidTracking(resp)
       THEN /\ WorkflowEnds("raised")
            /\ UNCHANGED <<callVars, leaderboardInfo>>
       ELSE IF existing.empty
         THEN /\ BeginRequest("wfStatus", calls, WalletData)
              /\ UNCHANGED <<leaderboardInfo, wfResult, batchVars>>
         ELSE AfterStatus(existing)
  /\ UNCHANGED <<dashboardResp, scanThrew, updatedLeaderboard, inputVars, otherVars, argVars>>

\* api/scan.js:84-91, 190-193  the post failed after its retries
TrackingThrows(e) ==
  /\ op = "tracking"
  /\ RetryThrows(e)
  /\ WorkflowEnds("raised")
  /\ UNCHANGED <<trackingResp, dashboardResp, leaderboardInfo, scanThrew, updatedLeaderboard>>
  /\ UNCHANGED <<inputVars, otherVars, argVars>>

\* api/leaderboard.js getLeaderboardInfo called from api/scan.js:144
WfStatusReturns(resp) ==
  /\ pc = "request"
  /\ op = "wfStatus"
  /\ IF resp.empty
       THEN /\ WorkflowEnds("raised")
            /\ UNCHANGED <<callVars, leaderboardInfo>>
       ELSE AfterStatus(resp)
  /\ UNCHANGED <<trackingResp, dashboardResp, scanThrew, updatedLeaderboard, inputVars, otherVars, argVars>>

WfStatusThrows(e) ==
  /\ op = "wfStatus"
  /\ RetryThrows(e)
  /\ WorkflowEnds("raised")
  /\ UNCHANGED <<trackingResp, dashboardResp, leaderboardInfo, scanThrew, updatedLeaderboard>>
  /\ UNCHANGED <<inputVars, otherVars, argVars>>

\* api/scan.js:99-125 getBasicDashboard got a response; api/scan.js:154-159
\* (Faulty variant: an empty response is not rejected, api/scan.js:112.)
DashboardReturnsUnchecked(resp) ==
  /\ pc = "request"
  /\ op = "dashboard"
  /\ dashboardResp' = resp
  /\ BeginRequest("scan", calls, WalletData)
  /\ UNCHANGED <<wfResult, batchVars>>
  /\ UNCHANGED <<trackingResp, leaderboardInfo, scanThrew, updatedLeaderboard>>
  /\ UNCHANGED <<inputVars, otherVars, argVars>>
DashboardReturns(resp) ==
  /\ pc = "request"
  /\ op = "dashboard"
  /\ dashboardResp' = resp
  /\ IF resp = "empty"
       THEN /\ WorkflowEnds("raised")
            /\ UNCHANGED callVars
       ELSE /\ BeginRequest("scan", calls, WalletData)
            /\ UNCHANGED <<wfResult, batchVars>>
  /\ UNCHANGED <<trackingResp, leaderboardInfo, scanThrew, updatedLeaderboard>>
  /\ UNCHANGED <<inputVars, otherVars, argVars>>

DashboardThrows(e) ==
  /\ op = "dashboard"
  /\ RetryThrows(e)
  /\ WorkflowEnds("raised")
  /\ UNCHANGED <<trackingResp, dashboardResp, leaderboardInfo, scanThrew, updatedLeaderboard>>
  /\ UNCHANGED <<inputVars, otherVars, argVars>>

\* api/scan.js:11-59 performWalletScan got a response: an empty one makes
\* it throw, which api/scan.js:158-162 catches; then sleep(2000).
ScanReturns(resp) ==
  /\ pc = "request"
  /\ op = "scan"
  /\ scanThrew' = (resp = "empty")
  /\ pc' = "settleSleep"
  /\ UNCHANGED <<callVars, trackingResp, dashboardResp, leaderboardInfo,
               updatedLeaderboard, wfResult>>
  /\ UNCHANGED <<batchVars, inputVars, otherVars, argVars>>

\* api/scan.js:46-58 rethrows the post's error, api/scan.js:160-165 logs it
\* and goes on to the settle wait.  (Faulty variant: no inner try/catch,
\* the error reaches the workflow's catch and is rethrown.)
ScanThrowsAborts(e) ==
  /\ op = "scan"
  /\ RetryThrows(e)
  /\ scanThrew' = TRUE
  /\ WorkflowEnds("raised")
  /\ UNCHANGED <<trackingResp, dashboardResp, leaderboardInfo, updatedLeaderboard>>
  /\ UNCHANGED <<inputVars, otherVars, argVars>>
ScanThrows(e) ==
  /\ op = "scan"
  /\ RetryThrows(e)
  /\ scanThrew' = TRUE
  /\ pc' = "settleSleep"
  /\ UNCHANGED <<trackingResp, dashboardResp, leaderboardInfo, updatedLeaderboard, wfResult>>
  /\ UNCHANGED <<batchVars, inputVars, otherVars, argVars>>

\* api/scan.js:165-166  the settle wait is over: fetch the status again
SettleSleepEnds ==
  /\ pc = "settleSleep"
  /\ BeginRequest("verify", calls, WalletData)
  /\ UNCHANGED <<wfVars, batchVars, inputVars, otherVars, argVars>>

\* api/scan.js:166-189  the post-action snapshot and the verdict
VerifyReturns(resp) ==
  /\ pc = "request"
  /\ op = "verify"
  /\ IF resp.empty
       THEN /\ WorkflowEnds("raised")
            /\ UNCHANGED updatedLeaderboard
       ELSE /\ updatedLeaderboard' = resp
            /\ WorkflowEnds(IF ScanVerified(leaderboardInfo, resp)
                              THEN "success" ELSE "failure")
  /\ UNCHANGED <<callVars, trackingResp, dashboardResp, leaderboardInfo, scanThrew>>
  /\ UNCHANGED <<inputVars, otherVars, argVars>>

\* api/scan.js:166, 190-193  the post-action fetch failed after its retries:
\* the workflow's catch logs and rethrows.  (Faulty variant: the failure is
\* reported as a scan without success.)
VerifyThrowsReportsFailure(e) ==
  /\ op = "verify"
  /\ RetryThrows(e)
  /\ WorkflowEnds("failure")
  /\ UNCHANGED <<trackingResp, dashboardResp, leaderboardInfo, scanThrew, updatedLeaderboard>>
  /\ UNCHANGED <<inputVars, otherVars, argVars>>
VerifyThrows(e) ==
  /\ op = "verify"
  /\ RetryThrows(e)
  /\ WorkflowEnds("raised")
  /\ UNCHANGED <<trackingResp, dashboardResp, leaderboardInfo, scanThrew, updatedLeaderboard>>
  /\ UNCHANGED <<inputVars, otherVars, argVars>>

\* ------------------------------------- processWallet, processAllWallets
\* index.js:36  leaderboardInfo.hasDoneDailyScan && !config.scan.forceRescan
BatchSkips(info, cfgForce) == info.hasDoneDailyScan /\ ~cfgForce

\* The assignment has built out: it is suspended in checkIpWithProxy while
\* wallets are missing, else it returns; in a batch the loop over the wallets
\* starts and the first processWallet sends its status request
\* (index.js:85-106, 24-31).
AssignmentGoesOn(out) ==
  /\ walletsWithProxies' = out
  /\ IF Len(out) < nWallets
       THEN /\ pc' = "ipCheck"
            /\ UNCHANGED callVars
       ELSE IF entry = "assign"
         THEN /\ pc' = "done"
              /\ UNCHANGED callVars
         ELSE BeginRequest("pwStatus", <<>>, out[1])

\* index.js:74-106  processAllWallets up to its first await: no wallets ends
\* the batch without a summary, else the proxies are assigned.
StartBatch ==
  /\ pc = "start"
  /\ entry = "batch"
  /\ IF nWallets = 0
       THEN /\ pc' = "done"
            /\ UNCHANGED <<callVars, walletsWithProxies>>
       ELSE AssignmentGoesOn(AssignProxiesToWallets)
  /\ UNCHANGED <<inputVars, parseVars, mainVars, logged, returned, argVars, wfVars, batchVars>>

\* lib/proxy.js:187-229 called alone
StartAssign ==
  /\ pc = "start"
  /\ entry = "assign"
  /\ AssignmentGoesOn(AssignProxiesToWallets)
  /\ UNCHANGED <<inputVars, parseVars, mainVars, logged, returned, argVars, wfVars, batchVars>>

\* What axios.get('https://api.ipify.org/?format=json') of checkIpWithProxy
\* settles with: a rejection (timeout, DNS failure, refused connection, or a
\* status outside 2xx, which axios rejects itself) or a response, whose body
\* has an ip, is an object without one, or is empty.
ProbeResults ==
  [rejected : {TRUE}, status : {0}, data : {"none"},
   code : {"ECONNABORTED", "ENOTFOUND", "ECONNREFUSED", "ERR_BAD_RESPONSE"}]
    \cup [rejected : {FALSE}, status : {200, 204}, data : {"ip", "noIp", "empty"},
          code : {"NONE"}]

\* how a call ends: it returns value, or it raises
Returns(value) == [raised |-> FALSE, value |-> value]
Raises == [raised |-> TRUE, value |-> "undefined"]

\* lib/proxy.js:165-180  checkIpWithProxy: response.data.ip of a 200 answer
\* that has one, else null; the catch block returns null.  (Faulty variant:
\* no catch block, a rejection is passed on.)
CheckIpWithProxyNoCatch(probe) ==
  IF probe.rejected THEN Raises
  ELSE IF probe.status = 200 /\ probe.data = "ip" THEN Returns("ip")
  ELSE Returns("null")
CheckIpWithProxy(probe) ==
  IF probe.rejected THEN Returns("null")
  ELSE IF probe.status = 200 /\ probe.data = "ip" THEN Returns("ip")
  ELSE Returns("null")

\* lib/proxy.js:209-219  let proxyIp = null; try { proxyIp = await
\* checkIpWithProxy(proxyAgent) } catch (error) {}
ProxyIpAfter(outcome) == IF outcome.raised THEN "null" ELSE outcome.value
\* the values proxyIp takes over all the ways the probe can end
ProxyIps == { ProxyIpAfter(CheckIpWithProxy(probe)) : probe \in ProbeResults }

\* lib/proxy.js:214-226  checkIpWithProxy resolved with an address or null:
\* the wallet is pushed with its agent and the loop goes on.
IpCheckEnds(ip) ==
  /\ pc = "ipCheck"
  /\ \E i \in {Len(walletsWithProxies)} :
       \E agent \in {CreateProxyAgent(ProxyFor(i))} :
         \E pushed \in {Append(walletsWithProxies, WalletWith(i + 1, agent, ProxyFor(i), ip))} :
           \E out \in {AssignLoop(pushed)} : AssignmentGoesOn(out)
  /\ UNCHANGED <<inputVars, parseVars, mainVars, logged, returned, argVars, wfVars, batchVars>>

\* lib/proxy.js:48-116 called alone
ParseProxyCall ==
  /\ pc = "start"
  /\ entry = "parse"
  /\ parsed' = ParseProxy(proxyString)
  /\ pc' = "done"
  /\ UNCHANGED <<proxyString, walletsWithProxies, mainVars, logged, returned, callVars, inputVars,
                 argVars, wfVars, batchVars>>

\* index.js:31-49  the first snapshot arrived: skip, or run the workflow
\* with (config.scan.forceRescan, leaderboardInfo).
PwStatusReturns(resp) ==
  /\ pc = "request"
  /\ op = "pwStatus"
  /\ IF resp.empty
       THEN /\ ProcessWalletEnds(FALSE, "none")
            /\ UNCHANGED <<callVars, argVars>>
       ELSE IF ~config.scanEnabled \/ BatchSkips(resp, config.forceRescan)
         THEN /\ ProcessWalletEnds(TRUE, "none")
              /\ UNCHANGED <<callVars, argVars>>
         ELSE /\ forceScan' = config.forceRescan
              /\ existing' = resp
              /\ BeginRequest("tracking", calls, WalletData)
              /\ UNCHANGED <<idx, successCount, walletDelay, sleepCount, results, summary>>
  /\ pwInfo' = resp
  /\ UNCHANGED <<wfVars, inputVars, otherVars>>

\* index.js:64-67  the outer catch: return false.  (Faulty variant: no outer
\* catch, the error ends processAllWallets in its own catch, index.js:126.)
PwStatusThrowsAborts(e) ==
  /\ op = "pwStatus"
  /\ RetryThrows(e)
  /\ pc' = "done"
  /\ UNCHANGED <<wfVars, batchVars, inputVars, otherVars, argVars>>
PwStatusThrows(e) ==
  /\ op = "pwStatus"
  /\ RetryThrows(e)
  /\ ProcessWalletEnds(FALSE, "none")
  /\ UNCHANGED <<pwInfo, wfVars, inputVars, otherVars, argVars>>

\* index.js:116, 89-106  the sleep between wallets is over: i++, the next
\* processWallet starts with fresh locals.
WalletSleepEnds ==
  /\ pc = "walletSleep"
  /\ idx' = idx + 1
  /\ BeginRequest("pwStatus", <<>>, walletsWithProxies[idx + 2])
  /\ pwInfo' = NoSnapshot
  /\ existing' = NoSnapshot
  /\ trackingResp' = "none"
  /\ dashboardResp' = "none"
  /\ leaderboardInfo' = NoSnapshot
  /\ scanThrew' = FALSE
  /\ updatedLeaderboard' = NoSnapshot
  /\ wfResult' = "none"
  /\ walletDelay' = 0
  /\ UNCHANGED <<forceScan, successCount, sleepCount, results, summary, inputVars, otherVars>>

InitCommon ==
  /\ pc = "start"
  /\ op = "none"
  /\ sent = NoRequest
  /\ parsed = ParseFailure
  /\ runs = [t \in Triggers |-> IdleRun]
  /\ reported = NothingReported
  /\ timerPending = FALSE
  /\ lastLogMessages = <<>>
  /\ lastEvent = "none"
  /\ logged = NoLog
  /\ returned = NoReturn
  /\ calls = <<>>
  /\ attempt = 0
  /\ invoked = 0
  /\ errors = <<>>
  /\ sleeps = <<>>
  /\ thrown = NoError
  /\ trackingResp = "none"
  /\ dashboardResp = "none"
  /\ pwInfo = NoSnapshot
  /\ leaderboardInfo = NoSnapshot
  /\ scanThrew = FALSE
  /\ updatedLeaderboard = NoSnapshot
  /\ wfResult = "none"
  /\ idx = 0
  /\ successCount = 0
  /\ walletDelay = 0
  /\ sleepCount = 0
  /\ results = <<>>
  /\ summary = <<>>

InitRetry ==
  /\ InitCommon
  /\ proxyString = NoProxyLine
  /\ entry = "retry"
  /\ config \in [maxRetries : 0..MaxRetriesBound, retryDelay : DelayChoices,
                 useProxy : {FALSE}, scanEnabled : {TRUE}, forceRescan : {FALSE},
                 delayBetweenWallets : {ConfigDelayBetweenWallets}]
  /\ proxies = <<>>
  /\ walletsWithProxies = WithoutProxies(1)
  /\ forceScan = FALSE
  /\ existing = NoSnapshot
  /\ nWallets = 0

NextRetry ==
  \/ StartRetry
  \/ \E e \in HttpErrors : RequestFails(e)
  \/ RetrySleepEnds
  \/ \E value \in BodyResponses : DirectReturns(value)
  \/ \E e \in HttpErrors : DirectThrows(e)

SpecRetry == InitRetry /\ [][NextRetry]_vars

\* performScanWorkflow(walletData, forceScan, existingLeaderboardInfo)
InitWorkflow ==
  /\ InitCommon
  /\ proxyString = NoProxyLine
  /\ entry = "workflow"
  /\ config \in [maxRetries : 0..MaxConfigRetries, retryDelay : {ConfigRetryDelay},
                 useProxy : {FALSE}, scanEnabled : {TRUE}, forceRescan : BOOLEAN,
                 delayBetweenWallets : {ConfigDelayBetweenWallets}]
  /\ proxies = <<>>
  /\ walletsWithProxies = WithoutProxies(1)
  /\ forceScan \in BOOLEAN
  /\ existing \in StatusResponses
  /\ nWallets = 0

WorkflowSteps ==
  \/ \E e \in HttpErrors : RequestFails(e)
  \/ RetrySleepEnds
  \/ \E r \in TrackingResponses : TrackingReturns(r)
  \/ \E e \in HttpErrors : TrackingThrows(e)
  \/ \E r \in BodyResponses : DashboardReturns(r)
  \/ \E e \in HttpErrors : DashboardThrows(e)
  \/ \E r \in BodyResponses : ScanReturns(r)
  \/ \E e \in HttpErrors : ScanThrows(e)
  \/ SettleSleepEnds
  \/ \E r \in StatusResponses : VerifyReturns(r)
  \/ \E e \in HttpErrors : VerifyThrows(e)

\* Only a call without a snapshot fetches one itself (api/scan.js:143-145).
WorkflowStatusSteps ==
  \/ \E r \in StatusResponses : WfStatusReturns(r)
  \/ \E e \in HttpErrors : WfStatusThrows(e)

NextWorkflow == StartWorkflow \/ WorkflowSteps \/ WorkflowStatusSteps

SpecWorkflow == InitWorkflow /\ [][NextWorkflow]_vars

\* processAllWallets() over 0..MaxWallets wallets
Init ==
  /\ InitCommon
  /\ proxyString = NoProxyLine
  /\ entry = "batch"
  /\ config \in [maxRetries : 0..MaxConfigRetries, retryDelay : {ConfigRetryDelay},
                 useProxy : {FALSE}, scanEnabled : BOOLEAN, forceRescan : BOOLEAN,
                 delayBetweenWallets : {ConfigDelayBetweenWallets}]
  /\ proxies = <<>>
  /\ walletsWithProxies = <<>>
  /\ forceScan = FALSE
  /\ existing = NoSnapshot
  /\ nWallets \in 0..MaxWallets

Next ==
  \/ StartBatch
  \/ \E r \in StatusResponses : PwStatusReturns(r)
  \/ \E e \in HttpErrors : PwStatusThrows(e)
  \/ WalletSleepEnds
  \/ WorkflowSteps

Spec == Init /\ [][Next]_vars

\* processAllWallets() with config.general.delayBetweenWallets in BaseDelays
InitJitter ==
  /\ InitCommon
  /\ proxyString = NoProxyLine
  /\ entry = "batch"
  /\ config \in [maxRetries : 0..MaxConfigRetries, retryDelay : {ConfigRetryDelay},
                 useProxy : {FALSE}, scanEnabled : BOOLEAN, forceRescan : {FALSE},
                 delayBetweenWallets : BaseDelays]
  /\ proxies = <<>>
  /\ walletsWithProxies = <<>>
  /\ forceScan = FALSE
  /\ existing = NoSnapshot
  /\ nWallets \in 0..MaxWallets

SpecJitter == InitJitter /\ [][Next]_vars

\* processAllWallets() with proxy.txt and config.general.useProxy in play
InitProxy ==
  /\ InitCommon
  /\ proxyString = NoProxyLine
  /\ entry = "batch"
  /\ config \in [maxRetries : 0..MaxConfigRetries, retryDelay : {ConfigRetryDelay},
                 useProxy : BOOLEAN, scanEnabled : {TRUE}, forceRescan : {FALSE},
                 delayBetweenWallets : {ConfigDelayBetweenWallets}]
  /\ proxies \in BoundedSeq(AssignLines, MaxBatchProxies)
  /\ walletsWithProxies = <<>>
  /\ forceScan = FALSE
  /\ existing = NoSnapshot
  /\ nWallets \in 0..MaxWallets
  \* retries are followed on batches of at most one wallet
  /\ config.maxRetries > 0 => nWallets <= 1

NextProxy ==
  \/ Next
  \/ \E ip \in ProxyIps : IpCheckEnds(ip)

SpecProxy == InitProxy /\ [][NextProxy]_vars

\* assignProxiesToWallets(wallets) called alone
InitAssign ==
  /\ InitCommon
  /\ proxyString = NoProxyLine
  /\ entry = "assign"
  /\ config \in [maxRetries : {0}, retryDelay : {ConfigRetryDelay},
                 useProxy : BOOLEAN, scanEnabled : {TRUE}, forceRescan : {FALSE},
                 delayBetweenWallets : {ConfigDelayBetweenWallets}]
  /\ proxies \in BoundedSeq(AssignLines, MaxProxies)
  /\ walletsWithProxies = <<>>
  /\ forceScan = FALSE
  /\ existing = NoSnapshot
  /\ nWallets \in 0..MaxAssignWallets

NextAssign ==
  \/ StartAssign
  \/ \E ip \in ProxyIps : IpCheckEnds(ip)

SpecAssign == InitAssign /\ [][NextAssign]_vars

\* parseProxy(proxyString) called alone
InitParse ==
  /\ InitCommon
  /\ proxyString \in ProxyStrings(MaxProxyTokens)
  /\ entry = "parse"
  /\ config \in [maxRetries : {0}, retryDelay : {ConfigRetryDelay},
                 useProxy : {TRUE}, scanEnabled : {TRUE}, forceRescan : {FALSE},
                 delayBetweenWallets : {ConfigDelayBetweenWallets}]
  /\ proxies = <<>>
  /\ walletsWithProxies = <<>>
  /\ forceScan = FALSE
  /\ existing = NoSnapshot
  /\ nWallets = 0

NextParse == ParseProxyCall

SpecParse == InitParse /\ [][NextParse]_vars

\* ------------------------------------------- lib/logger.js and main()
\* A log call: its type and what isDuplicateLog builds its key from, the
\* address (0 for none) and the message, a text with the number it embeds.
LogCall(type, address, text, n) == [type |-> type, key |-> <<address, text, n>>]
Info(address, text, n) == LogCall("info", address, text, n)

\* lib/logger.js:45-57  isDuplicateLog: the value returned, and
\* lastLogMessages after the call.
IsDuplicateLog(remembered, key) == \E n \in 1..Len(remembered) : remembered[n] = key
Remember(remembered, key) ==
  IF IsDuplicateLog(remembered, key) THEN remembered
  ELSE LET pushed == Append(remembered, key) IN
       IF Len(pushed) > MaxRememberedLogs THEN Tail(pushed) ELSE pushed

\* lib/logger.js:65-69  a call is written out unless it is a duplicate and not
\* an error.
IsWritten(remembered, call) ==
  ~(IsDuplicateLog(remembered, call.key) /\ call.type # "error")

\* lastLogMessages after a sequence of log calls (the one-element sets make
\* each intermediate value be computed once)
RECURSIVE LogAll(_, _)
LogAll(remembered, logCalls) ==
  IF logCalls = <<>> THEN remembered
  ELSE CHOOSE out \in { LogAll(next, rest) :
                          next \in {Remember(remembered, Head(logCalls).key)},
                          rest \in {Tail(logCalls)} } : TRUE
\* whether the n-th of a sequence of log calls is written out
Written(remembered, logCalls, n) ==
  IsWritten(LogAll(remembered, SubSeq(logCalls, 1, n - 1)), logCalls[n])

\* Texts are sequences of characters: "a" stands for a character of a wallet
\* address (a hexadecimal digit or the x of 0x), ":" for the colon.  The
\* address of a call is a wallet address or absent (null, undefined or ''),
\* which address || '' turns into the empty text; a message may hold colons.
NoAddress == <<>>
LogAddresses == { NoAddress, <<"a">> }
LogMessages == { <<"a">>, <<"a", "a">>, <<":", "a">> }
LogTypes == { "info", "error" }

\* lib/logger.js:46  `${address || ''}:${message}`.  (Faulty variant:
\* nothing separates the address from the message.)
LogKeyNoSeparator(address, message) == address \o message
LogKey(address, message) == address \o <<":">> \o message

\* lib/logger.js:65-69  log(message, type, address): isDuplicateLog is called
\* first, whatever the type; then the line is written or dropped.
Log(message, type, address) ==
  /\ entry = "log"
  /\ logged' = [type |-> type, address |-> address, message |-> message,
                before |-> lastLogMessages,
                written |-> IsWritten(lastLogMessages,
                                      [type |-> type, key |-> LogKey(address, message)])]
  /\ lastLogMessages' = Remember(lastLogMessages, LogKey(address, message))
  /\ UNCHANGED <<pc, runs, reported, timerPending, lastEvent, returned>>
  /\ UNCHANGED <<callVars, argVars, wfVars, batchVars, inputVars, walletsWithProxies,
                 parseVars>>

\* the logger called alone, any number of times
InitLog ==
  /\ InitCommon
  /\ proxyString = NoProxyLine
  /\ entry = "log"
  /\ config \in [maxRetries : {0}, retryDelay : {ConfigRetryDelay},
                 useProxy : {FALSE}, scanEnabled : {TRUE}, forceRescan : {FALSE},
                 delayBetweenWallets : {ConfigDelayBetweenWallets}]
  /\ proxies = <<>>
  /\ walletsWithProxies = <<>>
  /\ forceScan = FALSE
  /\ existing = NoSnapshot
  /\ nWallets = 0

NextLog == \E m \in LogMessages, t \in LogTypes, a \in LogAddresses : Log(m, t, a)

SpecLog == InitLog /\ [][NextLog]_vars

Running(t) == runs[t].pc # "idle"

\* index.js:136, 144, 150  the line logged before processAllWallets is called
TriggerLog(t) ==
  CASE t = "startup" -> Info(0, "Harpie Bot starting...", 0)
    [] t = "timer" -> Info(0, "Scheduled run triggered", 0)
    [] t = "cron" -> Info(0, "Cron job triggered", 0)

\* index.js:93, 28 and api/leaderboard.js:15 (part_000:216): the lines logged
\* from the head of iteration i to the status request of processWallet; with
\* useProxy false no proxy line is logged (index.js:96-104).
WalletStartLogs(i) ==
  << Info(i + 1, "Processing wallet", i + 1),
     Info(i + 1, "Starting process for wallet", 0),
     Info(i + 1, "Checking points and scan status", 0) >>

\* index.js:76, lib/wallet.js:29, lib/proxy.js:190: processAllWallets up to
\* its loop, with keys in pk.txt and useProxy false
BatchStartLogs ==
  << Info(0, "Starting wallet processing...", 0),
     Info(0, "Loaded private keys", nWallets),
     Info(0, "Proxy usage is disabled in config. Running without proxies.", 0) >>

\* api/client.js:64-93  the response interceptor's line for a failed request
InterceptorLog(address, e) ==
  IF e.status = 429 THEN LogCall("warning", address, "Rate limited (429)", 0)
  ELSE IF e.status >= 500 THEN LogCall("error", address, "Server error", e.status)
  ELSE IF e.status > 0 THEN LogCall("error", address, "Request failed", e.status)
  ELSE IF e.code = "ECONNREFUSED" THEN LogCall("error", address, "Connection refused", 0)
  ELSE IF e.code = "ECONNRESET"
    THEN LogCall("error", address, "Connection reset - possible proxy issue", 0)
  ELSE LogCall("error", address, "Network error", 0)

\* The lines of processWallet for a status request that failed with e, retries
\* being off: the interceptor's, getLeaderboardInfo's (part_000:250-257) and
\* the outer catch's (index.js:64-66).  The last one is the outcome.
StatusFailedLogs(address, e) ==
  << InterceptorLog(address, e),
     IF e.code \in {"ECONNRESET", "ECONNREFUSED"}
       THEN LogCall("error", address, "Failed to fetch points: Network or proxy issue", 0)
       ELSE LogCall("error", address, "Failed to fetch points", e.status),
     LogCall("error", address, "Process failed for wallet", e.status) >>

\* The lines for an empty response body (part_000:227-229, 255; index.js:65)
StatusEmptyLogs(address) ==
  << LogCall("error", address, "Failed to fetch points: Empty response received", 0),
     LogCall("error", address, "Process failed for wallet: Empty response received", 0) >>

\* The lines for a snapshot that says the daily scan is done (part_000:234-236,
\* index.js:36-37, 62).  The skip line, the last but one, is the outcome.
StatusDoneLogs(address, info) ==
  (IF info.hasScore
     THEN << LogCall("points", address, "Points | Daily scan: Completed",
                     info.personalPoints) >>
     ELSE << >>)
  \o << Info(address, "Daily scan already completed. Skipping scan.", 0),
        LogCall("success", address, "Process completed for wallet", 0) >>

\* index.js:106-125 and 139-152  processWallet returned for wallet i of batch
\* t after logging logCalls, its outcome line being the one at position at:
\* count, then wait before the next wallet, or log the summary and return;
\* when main's own await returns, main schedules the cron job and the timer.
MainWalletDone(t, logCalls, at, kind, ok, tag) ==
  LET run == runs[t]
      count == IF ok THEN run.successCount + 1 ELSE run.successCount
      more == run.i < nWallets - 1
      tail == IF more
                THEN << Info(0, "Waiting before processing next wallet", tag) >>
                ELSE << LogCall("success", 0, "All wallets processed. Success", count),
                        Info(0, "Next run scheduled for", tag) >>
      all == logCalls \o tail
  IN /\ runs' = [runs EXCEPT ![t] =
                  [pc |-> IF more THEN "walletSleep" ELSE "idle",
                   i |-> run.i,
                   successCount |-> count]]
     /\ lastEvent' = IF more THEN "step" ELSE "end"
     /\ IF ~more /\ t = "startup"
          THEN /\ pc' = "armed"
               /\ timerPending' = TRUE
          ELSE UNCHANGED <<pc, timerPending>>
     /\ lastLogMessages' = LogAll(lastLogMessages, all)
     /\ reported' = [outcome |-> kind,
                     written |-> Written(lastLogMessages, logCalls, at),
                     summary |-> IF more THEN "none"
                                 ELSE IF Written(lastLogMessages, all, Len(logCalls) + 1)
                                   THEN "written" ELSE "suppressed"]

\* index.js:74-106, 24-31  processAllWallets is called for trigger t and runs
\* to the status request of its first wallet.
MainBatchStarts(t) ==
  /\ ~Running(t)
  /\ runs' = [runs EXCEPT ![t] = [IdleRun EXCEPT !.pc = "request"]]
  /\ reported' = NothingReported
  /\ lastEvent' = "start"
  /\ lastLogMessages' =
       LogAll(lastLogMessages, <<TriggerLog(t)>> \o BatchStartLogs \o WalletStartLogs(0))

\* index.js:134-139  main() starts the first batch and awaits it
MainStart ==
  /\ entry = "main"
  /\ pc = "start"
  /\ MainBatchStarts("startup")
  /\ pc' = "startup"
  /\ UNCHANGED <<timerPending, modelVars>>

\* index.js:149-152  the one-shot timer fires
TimerFires ==
  /\ entry = "main"
  /\ pc = "armed"
  /\ timerPending
  /\ MainBatchStarts("timer")
  /\ timerPending' = FALSE
  /\ UNCHANGED <<pc, modelVars>>

\* index.js:143-146  the cron job fires and starts a batch, unless the batch
\* of an earlier firing is still running.  (Faulty variant: the pattern never
\* matches.)
CronNeverFires ==
  /\ FALSE
  /\ UNCHANGED vars
CronFires ==
  /\ entry = "main"
  /\ pc = "armed"
  /\ MainBatchStarts("cron")
  /\ UNCHANGED <<pc, timerPending, modelVars>>

\* The status request of batch t's current wallet returns a body saying the
\* daily scan is done (with rescans not forced processWallet skips, index.js:36)
\* or no body at all.
MainStatusReturns(t, resp, tag) ==
  /\ entry = "main"
  /\ runs[t].pc = "request"
  /\ resp.empty \/ BatchSkips(resp, config.forceRescan)
  /\ IF resp.empty
       THEN MainWalletDone(t, StatusEmptyLogs(runs[t].i + 1), 2, "hard-failure",
                           ProcessWalletReturns(FALSE, "none"), tag)
       ELSE MainWalletDone(t, StatusDoneLogs(runs[t].i + 1, resp),
                           Len(StatusDoneLogs(runs[t].i + 1, resp)) - 1, "skipped",
                           ProcessWalletReturns(TRUE, "none"), tag)
  /\ UNCHANGED modelVars

\* The status request of batch t's current wallet fails; retries are off, so
\* withRetry rethrows at once (lib/utils.js:39-41).
MainStatusThrows(t, e, tag) ==
  /\ entry = "main"
  /\ runs[t].pc = "request"
  /\ ShouldRethrow(e, 1, config.maxRetries)
  /\ MainWalletDone(t, StatusFailedLogs(runs[t].i + 1, e), 3, "hard-failure",
                    ProcessWalletReturns(FALSE, "none"), tag)
  /\ UNCHANGED modelVars

\* index.js:116, 89-106  the wait between two wallets of batch t is over
MainWalletSleepEnds(t) ==
  /\ entry = "main"
  /\ runs[t].pc = "walletSleep"
  /\ runs' = [runs EXCEPT ![t].pc = "request", ![t].i = runs[t].i + 1]
  /\ reported' = NothingReported
  /\ lastEvent' = "step"
  /\ lastLogMessages' = LogAll(lastLogMessages, WalletStartLogs(runs[t].i + 1))
  /\ UNCHANGED <<pc, timerPending, modelVars>>

\* main() on a day on which every wallet already has its scan: retries off,
\* proxies off, every status request fails or reports the daily scan done.
InitMain ==
  /\ InitCommon
  /\ proxyString = NoProxyLine
  /\ entry = "main"
  /\ config \in [maxRetries : {0}, retryDelay : {ConfigRetryDelay},
                 useProxy : {FALSE}, scanEnabled : {TRUE}, forceRescan : {FALSE},
                 delayBetweenWallets : {ConfigDelayBetweenWallets}]
  /\ proxies = <<>>
  /\ walletsWithProxies = <<>>
  /\ forceScan = FALSE
  /\ existing = NoSnapshot
  /\ nWallets \in 1..MaxMainWallets

NextMain ==
  \/ MainStart
  \/ TimerFires
  \/ CronFires
  \/ \E t \in Triggers, r \in MainResponses, tag \in LogTags : MainStatusReturns(t, r, tag)
  \/ \E t \in Triggers, e \in MainErrors, tag \in LogTags : MainStatusThrows(t, e, tag)
  \/ \E t \in Triggers : MainWalletSleepEnds(t)

SpecMain == InitMain /\ [][NextMain]_vars

\* The process is not killed and time goes on: a pending request completes,
\* a sleep ends, a timer or the cron job fires.
SpecMainFair == SpecMain /\ WF_vars(NextMain)

\* What readProxies returns in the termination specification: nothing, one
\* line that yields an agent for every wallet, and that line followed by one
\* that yields none (every second wallet then goes without a probe).
\* Without useProxy the assignment returns before readProxies is called
\* (lib/proxy.js:189-194) and proxies stays empty.
TerminationProxies ==
  { <<>>,
    <<ProxyLine("socks5://", <<"host", ":", "80">>)>>,
    <<ProxyLine("socks5://", <<"host", ":", "80">>), ProxyLine("", <<"host">>)>> }
\* the answers of getLeaderboardInfo in the termination specification: no
\* body, a body of an identity that has not scanned today, one that has
TerminationResponses ==
  { NoSnapshot, Snapshot(FALSE, TRUE, 0, FALSE), Snapshot(FALSE, TRUE, 0, TRUE) }
\* processAllWallets() to its end, with a proxy line that gives an agent and
\* one that gives none, and a connection error or a rate limit as the ways a
\* request fails.
InitTermination ==
  /\ InitCommon
  /\ proxyString = NoProxyLine
  /\ entry = "batch"
  /\ config \in [maxRetries : 0..MaxConfigRetries, retryDelay : {ConfigRetryDelay},
                 useProxy : BOOLEAN, scanEnabled : {TRUE}, forceRescan : {FALSE},
                 delayBetweenWallets : {ConfigDelayBetweenWallets}]
  /\ proxies \in IF config.useProxy THEN TerminationProxies ELSE {<<>>}
  /\ walletsWithProxies = <<>>
  /\ forceScan = FALSE
  /\ existing = NoSnapshot
  /\ nWallets \in 0..MaxWallets

NextTermination ==
  \/ StartBatch
  \/ \E ip \in ProxyIps : IpCheckEnds(ip)
  \/ \E r \in TerminationResponses : PwStatusReturns(r)
  \/ \E e \in MainErrors : PwStatusThrows(e)
  \/ WalletSleepEnds
  \/ \E e \in MainErrors : RequestFails(e)
  \/ RetrySleepEnds
  \/ \E r \in TrackingResponses : TrackingReturns(r)
  \/ \E e \in MainErrors : TrackingThrows(e)
  \/ \E r \in BodyResponses : DashboardReturns(r)
  \/ \E e \in MainErrors : DashboardThrows(e)
  \/ \E r \in BodyResponses : ScanReturns(r)
  \/ \E e \in MainErrors : ScanThrows(e)
  \/ SettleSleepEnds
  \/ \E r \in TerminationResponses : VerifyReturns(r)
  \/ \E e \in MainErrors : VerifyThrows(e)

SpecTermination == InitTermination /\ [][NextTermination]_vars

\* Every request returns or fails (axios's timeout), every probe ends, every
\* sleep ends.
SpecTerminationFair == SpecTermination /\ WF_vars(NextTermination)

\* Either entry point of the scan: the batch, or the workflow called alone.
InitAny == Init \/ InitWorkflow
NextAny == Next \/ StartWorkflow \/ WorkflowStatusSteps
SpecAny == InitAny /\ [][NextAny]_vars

\* ================================================================ claims
\* The failure kinds of the specification (section 4.2), by error shape.
Kind(e) ==
  IF e.code = "ECONNRESET" THEN "ConnectionReset"
  ELSE IF e.code = "ECONNREFUSED" THEN "ConnectionRefused"
  ELSE IF e.code = "ETIMEDOUT" THEN "Timeout"
  ELSE IF e.status = 429 THEN "RateLimited"
  ELSE IF e.status >= 500 THEN "ServerFault"
  ELSE IF e.status >= 400 THEN "ClientRejected"
  ELSE "None"
RetryableKinds ==
  {"RateLimited", "ServerFault", "ConnectionReset", "ConnectionRefused", "Timeout"}

\* The current withRetry call is over (it returned or threw).
RetryEnded == invoked > 0 /\ pc \notin {"request", "retrySleep"}
\* Every attempt of the current withRetry call failed, each with a kind of K.
AllFailedWith(K) ==
  /\ invoked > 0
  /\ Len(errors) = invoked
  /\ \A n \in 1..Len(errors) : Kind(errors[n]) \in K

RECURSIVE SumSeq(_)
SumSeq(s) == IF s = <<>> THEN 0 ELSE Head(s) + SumSeq(Tail(s))

C4_AttemptBound ==
  /\ invoked <= config.maxRetries + 1
  /\ Len(errors) <= config.maxRetries + 1
  /\ (RetryEnded /\ AllFailedWith(RetryableKinds)) =>
       /\ invoked = config.maxRetries + 1
       /\ thrown # NoError
       /\ thrown = errors[Len(errors)]

\* Three retryable failures, the last of a different kind than the first.
C4_Witness ==
  /\ entry = "retry"
  /\ pc = "done"
  /\ AllFailedWith(RetryableKinds)
  /\ invoked >= 3
  /\ errors[1] # errors[Len(errors)]
  /\ thrown = errors[Len(errors)]

\* C5: when every attempt fails with RateLimited, withRetry ends after exactly
\* maxRetries+1 attempts by raising, it slept maxRetries times (no sleep
\* after the last attempt) and the sleeps sum to at least maxRetries*delayMs*2.
C5_RateLimitedForever ==
  (RetryEnded /\ AllFailedWith({"RateLimited"})) =>
    /\ invoked = config.maxRetries + 1
    /\ thrown # NoError
    /\ Len(sleeps) = config.maxRetries
    /\ SumSeq(sleeps) >= config.maxRetries * config.retryDelay * 2

\* Rate limited on each of three attempts with a positive delay.
C5_Witness ==
  /\ entry = "retry"
  /\ pc = "done"
  /\ AllFailedWith({"RateLimited"})
  /\ invoked >= 3
  /\ config.retryDelay > 0
  /\ Len(sleeps) = invoked - 1

\* C6: the sleep after failed attempt n is delayMs*2 when the attempt failed
\* with RateLimited and delayMs + n*500 for every other kind, and there is
\* exactly one sleep between two consecutive attempts: n attempts made means
\* n-1 sleeps done, n sleeps while the sleep after attempt n is running.
C6_BackoffFormula ==
  /\ \A n \in 1..Len(sleeps) :
       sleeps[n] = IF Kind(errors[n]) = "RateLimited"
                     THEN config.retryDelay * 2
                     ELSE config.retryDelay + n * 500
  /\ invoked > 0 =>
       Len(sleeps) = IF pc = "retrySleep" THEN invoked ELSE invoked - 1

\* A rate-limited first attempt and a server fault on the second, both slept on.
C6_Witness ==
  /\ entry = "retry"
  /\ Len(sleeps) >= 2
  /\ Kind(errors[1]) = "RateLimited"
  /\ Kind(errors[2]) = "ServerFault"
  /\ config.retryDelay > 0
  /\ pc = "request"
  /\ invoked = 3

\* ------------------------------------------------- batch and workflow
\* The remote operations the scan workflow itself issued for this identity.
WorkflowCalls == SelectSeq(calls, LAMBDA c : c # "pwStatus")
Issued(o) == \E n \in 1..Len(calls) : calls[n] = o
NoForce == ~forceScan /\ ~config.forceRescan
\* The batch logged its summary line.
SummaryLogged == entry = "batch" /\ summary # <<>>
CountOf(P(_)) == Cardinality({k \in 1..Len(results) : P(results[k])})
NothingRaised(r) == r.statusOk /\ r.wf # "raised"
StatusFetched(r) == r.statusOk

C2_BatchContinues ==
  entry = "batch" =>
    /\ pc \notin {"start", "done"} =>
         /\ idx < nWallets
         /\ Len(results) = IF pc = "walletSleep" THEN idx + 1 ELSE idx
         /\ ENABLED Next
    /\ (pc = "done" /\ nWallets > 0) =>
         /\ Len(results) = nWallets
         /\ summary = <<successCount, nWallets>>

\* The first identity's workflow raised after its tracking request failed,
\* the second identity was still processed (its status fetch failed, which
\* did not stop the batch either) and the summary was logged.
C2_Witness ==
  /\ SummaryLogged
  /\ pc = "done"
  /\ Len(results) = 2
  /\ results[1].wf = "raised"
  /\ ~results[2].statusOk
  /\ summary = <<1, 2>>

\* C7: when the pre-action snapshot has hasDoneDailyScan and nothing forces a
\* scan, neither getBasicDashboard nor performWalletScan is ever called in
\* that run; once the workflow has taken the snapshot it has ended with
\* skipped = true, and processWallet does not even call the workflow.
C7_SkipPath ==
  /\ (~leaderboardInfo.empty /\ leaderboardInfo.hasDoneDailyScan /\ NoForce) =>
       /\ wfResult = "skipped"
       /\ ~Issued("dashboard")
       /\ ~Issued("scan")
       /\ ~Issued("verify")
  /\ (~existing.empty /\ existing.hasDoneDailyScan /\ NoForce) =>
       /\ wfResult \in {"none", "skipped", "raised"}
       /\ ~Issued("dashboard")
       /\ ~Issued("scan")
  /\ (~pwInfo.empty /\ pwInfo.hasDoneDailyScan /\ ~config.forceRescan) =>
       /\ calls = <<"pwStatus">>
       /\ wfResult = "none"
       /\ pc \in {"walletSleep", "done"}

\* The workflow fetched a snapshot itself, found the scan done and skipped.
C7_Witness ==
  /\ entry = "workflow"
  /\ wfResult = "skipped"
  /\ calls = <<"tracking", "wfStatus">>
  /\ leaderboardInfo.hasDoneDailyScan
  /\ pc = "done"

\* processWallet found the scan done and did not call the workflow.
C7_WitnessBatch ==
  /\ entry = "batch"
  /\ pwInfo.hasDoneDailyScan
  /\ ~config.forceRescan
  /\ config.scanEnabled
  /\ Len(results) = 1
  /\ results[1] = [wallet |-> 1, statusOk |-> TRUE, wf |-> "none", ret |-> TRUE]

\* C8: an error of performWalletScan never aborts the workflow: the settle
\* wait follows, then the post-action status fetch; the workflow raises only
\* if that fetch fails, and if its snapshot has more personalPoints than the
\* pre-action one the workflow ends with success.
C8_ScanErrorSuppressed ==
  scanThrew =>
    /\ Issued("scan")
    /\ pc = "settleSleep" \/ Issued("verify")
    /\ wfResult = "raised" => op = "verify"
    /\ ( /\ ~updatedLeaderboard.empty
         /\ updatedLeaderboard.hasScore
         /\ leaderboardInfo.hasScore
         /\ updatedLeaderboard.personalPoints > leaderboardInfo.personalPoints )
       => wfResult = "success"

\* The scan request failed after its retries, the flag stayed false, the
\* points went up, and the workflow reported success.
C8_Witness ==
  /\ scanThrew
  /\ op = "verify"
  /\ thrown = NoError
  /\ ~updatedLeaderboard.empty
  /\ ~updatedLeaderboard.hasDoneDailyScan
  /\ updatedLeaderboard.personalPoints > leaderboardInfo.personalPoints
  /\ wfResult = "success"

\* C9: a workflow that reached its verdict reports success exactly when the
\* post-action snapshot has hasDoneDailyScan or more personalPoints than the
\* pre-action snapshot, whether performWalletScan returned or raised.
C9_VerificationRule ==
  wfResult \in {"success", "failure"} =>
    /\ ~updatedLeaderboard.empty
    /\ wfResult = "success" <=>
         \/ updatedLeaderboard.hasDoneDailyScan
         \/ /\ updatedLeaderboard.hasScore
            /\ leaderboardInfo.hasScore
            /\ updatedLeaderboard.personalPoints > leaderboardInfo.personalPoints

\* The scan returned, the flag is false and the points are unchanged: failure.
C9_Witness ==
  /\ wfResult = "failure"
  /\ ~scanThrew
  /\ ~updatedLeaderboard.hasDoneDailyScan
  /\ updatedLeaderboard.hasScore
  /\ leaderboardInfo.hasScore
  /\ updatedLeaderboard.personalPoints = leaderboardInfo.personalPoints
  /\ updatedLeaderboard.personalPoints > 0

\* C10: when getTrackingId fails after its retries or gets a response without
\* a trackingId, the workflow raises and has issued no other remote operation.
TrackingFailed ==
  \/ trackingResp \in {"noToken", "empty"}
  \/ (op = "tracking" /\ thrown # NoError)
C10_TrackingFatal ==
  TrackingFailed =>
    /\ wfResult = "raised"
    /\ WorkflowCalls = <<"tracking">>

\* The tracking request failed on every attempt, with retries configured.
C10_Witness ==
  /\ op = "tracking"
  /\ thrown # NoError
  /\ invoked >= 2
  /\ wfResult = "raised"

\* ------------------------------------------------------- step ordering
\* The remote operation of the specification (section 5) behind a request.
RemoteOp(o) ==
  CASE o = "tracking" -> "registerTracking"
    [] o \in {"pwStatus", "wfStatus", "verify"} -> "getStatus"
    [] o = "dashboard" -> "primeSession"
    [] o = "scan" -> "submitAction"
    [] OTHER -> "none"
\* The remote operations issued for the current identity, in order.
RemoteCalls == [n \in 1..Len(calls) |-> RemoteOp(calls[n])]
IsPrefix(s, t) == Len(s) <= Len(t) /\ \A n \in 1..Len(s) : s[n] = t[n]
CountIn(s, x) == Cardinality({n \in 1..Len(s) : s[n] = x})
FirstIndex(s, x) == CHOOSE n \in 1..Len(s) : s[n] = x /\ \A m \in 1..(n - 1) : s[m] # x

\* C15 as stated: for every identity of a batch the remote operations are
\* issued in the order registerTracking, getStatus, primeSession,
\* submitAction, getStatus, or a prefix of it; none before registerTracking.
C15_TrackingFirst ==
  entry = "batch" =>
    IsPrefix(RemoteCalls, <<"registerTracking", "getStatus", "primeSession",
                            "submitAction", "getStatus">>)

\* C15 amended: processWallet fetches the status first and hands the snapshot
\* to the workflow, which then does not fetch it again: for every identity of
\* a batch the order is getStatus, registerTracking, primeSession,
\* submitAction, getStatus, or a prefix of it.  Only the workflow called
\* without a snapshot has the order registerTracking, getStatus, ...; called
\* with one it issues registerTracking, primeSession, submitAction, getStatus.
C15_StatusFirstInBatch ==
  /\ entry = "batch" =>
       /\ IsPrefix(calls, <<"pwStatus", "tracking", "dashboard", "scan", "verify">>)
       /\ IsPrefix(RemoteCalls, <<"getStatus", "registerTracking", "primeSession",
                                  "submitAction", "getStatus">>)
  /\ (entry = "workflow" /\ existing.empty) =>
       IsPrefix(RemoteCalls, <<"registerTracking", "getStatus", "primeSession",
                               "submitAction", "getStatus">>)
  /\ (entry = "workflow" /\ ~existing.empty) =>
       IsPrefix(RemoteCalls, <<"registerTracking", "primeSession",
                               "submitAction", "getStatus">>)

\* An identity of a batch went through all five remote operations.
C15_Witness ==
  /\ entry = "batch"
  /\ RemoteCalls = <<"getStatus", "registerTracking", "primeSession",
                     "submitAction", "getStatus">>
  /\ wfResult = "success"

\* C16 as stated: getLeaderboardInfo fails on a response without a
\* personalPoints field, so every snapshot it returned has a score and no skip
\* decision or verdict is computed from a snapshot without one.
C16_ScoreLessRejected ==
  /\ ~pwInfo.empty => pwInfo.hasScore
  /\ (entry = "workflow" /\ existing.empty /\ ~leaderboardInfo.empty) =>
       leaderboardInfo.hasScore
  /\ ~updatedLeaderboard.empty => updatedLeaderboard.hasScore
  /\ wfResult \in {"skipped", "success", "failure"} => leaderboardInfo.hasScore

\* C17: whenever performWalletScan has been called in a workflow run,
\* getBasicDashboard was called exactly once in that run, before it, and
\* returned a response (it did not raise); the scan itself is called once.
C17_PrimedBeforeScan ==
  Issued("scan") =>
    /\ CountIn(calls, "dashboard") = 1
    /\ CountIn(calls, "scan") = 1
    /\ FirstIndex(calls, "dashboard") < FirstIndex(calls, "scan")
    /\ dashboardResp = "body"

\* The scan request of a batch identity is in flight, its dashboard request
\* having returned a body.
C17_Witness ==
  /\ entry = "batch"
  /\ pc = "request"
  /\ op = "scan"
  /\ dashboardResp = "body"
  /\ calls = <<"pwStatus", "tracking", "dashboard", "scan">>

\* ------------------------------------------------------------- proxies
\* Proxies are in use: enabled in the configuration and proxy.txt not empty.
ProxiesInUse == config.useProxy /\ proxies # <<>>
\* The assignment has returned.
Assigned == entry \in {"batch", "assign"} /\ pc \notin {"start", "ipCheck"}

\* C11: with proxies in use, the k-th wallet pushed (identity k-1 counted from
\* 0) is the k-th wallet of the input and carries exactly the proxy line at
\* index (k-1) mod M; the list returned has one element per wallet.
C11_CyclicAssignment ==
  ProxiesInUse =>
    /\ \A k \in 1..Len(walletsWithProxies) :
         /\ walletsWithProxies[k].wallet = k
         /\ walletsWithProxies[k].proxyString = proxies[((k - 1) % Len(proxies)) + 1]
    /\ Len(walletsWithProxies) <= nWallets
    /\ Assigned => Len(walletsWithProxies) = nWallets

\* Three wallets over two different proxy lines: the third wallet is back on
\* the first line.
C11_Witness ==
  /\ entry = "assign"
  /\ pc = "done"
  /\ config.useProxy
  /\ nWallets = 3
  /\ Len(proxies) = 2
  /\ proxies[1] # proxies[2]
  /\ walletsWithProxies[2].proxyString = proxies[2]
  /\ walletsWithProxies[3].proxyString = proxies[1]

\* C12: when useProxy is false or proxy.txt is empty, the assignment returns
\* at once (it is never suspended in an IP check, and the batch goes on to its
\* first request), every wallet has proxy null, and the client of every
\* request of the batch is configured without an httpAgent / httpsAgent.
C12_DirectFallback ==
  (entry = "batch" /\ ~ProxiesInUse) =>
    /\ pc # "ipCheck"
    /\ (pc # "start" /\ nWallets > 0) => Len(walletsWithProxies) = nWallets
    /\ \A k \in 1..Len(walletsWithProxies) : walletsWithProxies[k].proxy = NullAgent
    /\ sent.httpAgent = NoAgent
    /\ sent.httpsAgent = NoAgent
    /\ (pc = "request" => sent # NoRequest)

\* Proxies disabled with a proxy line on file: the post-action status request
\* of the second identity is in flight.
C12_Witness ==
  /\ entry = "batch"
  /\ ~config.useProxy
  /\ proxies # <<>>
  /\ idx = 1
  /\ pc = "request"
  /\ op = "verify"

\* Proxies enabled with an empty proxy.txt: a request is in flight.
C12_WitnessEmptyList ==
  /\ entry = "batch"
  /\ config.useProxy
  /\ proxies = <<>>
  /\ pc = "request"
  /\ op = "scan"

\* The accepted shapes of a proxy line (specification, section 4.1).  A port
\* is valid when it is a number of 1..65535: here 80 or 8080.
NoSeparator(text) == text # <<>> /\ \A n \in 1..Len(text) : text[n] \notin {":", "@"}
IsHostName(text) == NoSeparator(text) /\ ~DigitsOnly(text)
ValidPort(text) == DigitsOnly(text) /\ Len(text) <= 2
IsHostPort(body) ==
  LET parts == Split(body, ":") IN
  /\ Len(parts) = 2
  /\ IsHostName(parts[1])
  /\ ValidPort(parts[2])
IsUserPass(text) ==
  LET parts == Split(text, ":") IN
  /\ Len(parts) = 2
  /\ NoSeparator(parts[1])
  /\ NoSeparator(parts[2])
AcceptedShape(line) ==
  LET parts == Split(line.body, "@") IN
  /\ line.scheme \in UrlSchemes \cup {""}
  /\ \/ IsHostPort(line.body)
     \/ (Len(parts) = 2 /\ IsUserPass(parts[1]) /\ IsHostPort(parts[2]))

\* C13 as stated: for a line of an accepted shape parseProxy returns a
\* descriptor with a non-empty host and a valid port; for every other line it
\* returns null.
C13_ParseContract ==
  (entry = "parse" /\ pc = "done") =>
    IF AcceptedShape(proxyString)
      THEN /\ ~parsed.isNull
           /\ ~Falsy(parsed.host)
           /\ ValidPort(parsed.port)
      ELSE parsed.isNull

\* C13, first half only: a line of an accepted shape is never refused.
\* (Violated by http://host:80, whose url.port is the empty string.)
C13_AcceptedShapeParsed ==
  (entry = "parse" /\ pc = "done" /\ AcceptedShape(proxyString)) => ~parsed.isNull

\* C13, second half only: what is returned for a line of no accepted shape
\* is null.  (Violated by host:host, returned with the port "host".)
C13_OthersRefused ==
  (entry = "parse" /\ pc = "done" /\ ~AcceptedShape(proxyString)) => parsed.isNull

\* C18 as stated: the configuration of the client that sends a request holds
\* a correlation identifier, as a request id or as a header.
CorrelationHeaders == {"X-Request-ID", "X-Correlation-ID", "Request-Id"}
CarriesCorrelationId(axiosConfig) ==
  \/ "requestId" \in DOMAIN axiosConfig
  \/ axiosConfig.headers \cap CorrelationHeaders # {}
C18_RequestCarriesId ==
  pc = "request" => CarriesCorrelationId(sent)

\* ------------------------------------------------------------ scheduling
\* C14: at any moment at most one batch, whatever started it, is between its
\* start and its end, so at most one identity is being processed.
\* (Violated: the timer's batch and a cron batch run side by side.)
C14_OneBatchAtATime == Cardinality({ t \in Triggers : Running(t) }) <= 1

\* C19: the outcome line of every identity processed in a batch is written
\* out, and a batch that is over has written its summary line.
\* (Violated: lines of two batches that overlap on the same identities are
\* duplicates of each other for isDuplicateLog.)
C19_NoOutcomeDropped ==
  /\ reported.outcome # "none" => reported.written
  /\ lastEvent = "end" => reported.summary = "written"

\* C20: once a batch has ended, a batch is started again.
C20_BatchesRecur == (lastEvent = "end") ~> (lastEvent = "start")
\* the timer has fired, its batch is over, and the cron job has just started
\* the next one
C20_Witness ==
  /\ pc = "armed"
  /\ ~timerPending
  /\ ~Running("timer")
  /\ Running("cron")
  /\ lastEvent = "start"

\* ------------------------------------------------------ snapshot reuse
\* The identity of a batch whose processing is over (its processWallet
\* returned) and for which the scan workflow was called and did not skip.
IdentityDone == entry = "batch" /\ pc \in {"walletSleep", "done"} /\ results # <<>>
LastResult == results[Len(results)]
NotSkippedDone == IdentityDone /\ LastResult.wf \notin {"none", "skipped"}

\* C21 as stated: a non-skipped identity of a batch causes exactly two
\* getStatus operations.  (Violated: the workflow raised before its
\* verification step, the status was fetched once.)
C21_ExactlyTwoStatusCalls ==
  NotSkippedDone => CountIn(RemoteCalls, "getStatus") = 2

\* C21 amended: a workflow given a snapshot never fetches the status before
\* its verification step, decides the skip on that snapshot and compares the
\* points against it; a non-skipped identity of a batch causes one getStatus
\* operation, and a second one exactly when the workflow reached its
\* verification step.
C21_SnapshotReused ==
  /\ (entry \in {"batch", "workflow"} /\ ~existing.empty) =>
       /\ ~Issued("wfStatus")
       /\ ~leaderboardInfo.empty => leaderboardInfo = existing
       /\ wfResult = "skipped" => ShouldSkip(existing, forceScan, config.forceRescan)
       /\ Issued("dashboard") => ~ShouldSkip(existing, forceScan, config.forceRescan)
       /\ wfResult \in {"success", "failure"} =>
            (wfResult = "success" <=> ScanVerified(existing, updatedLeaderboard))
  /\ NotSkippedDone =>
       /\ CountIn(RemoteCalls, "getStatus") = (IF Issued("verify") THEN 2 ELSE 1)
       /\ CountIn(calls, "pwStatus") = 1

\* A batch identity was verified on points alone: the snapshot processWallet
\* handed in was the baseline, and the status was fetched twice in all.
C21_Witness ==
  /\ NotSkippedDone
  /\ LastResult.wf = "success"
  /\ leaderboardInfo = existing
  /\ existing = pwInfo
  /\ ~updatedLeaderboard.hasDoneDailyScan
  /\ PointsIncreased(existing, updatedLeaderboard)
  /\ calls = <<"pwStatus", "tracking", "dashboard", "scan", "verify">>

\* ------------------------------------------------------------- jitter
\* the sleeps between wallets are as many as the identities processed, less
\* one once the last identity is done
SleepsSoFar ==
  IF pc = "done" /\ results # <<>> THEN Len(results) - 1 ELSE Len(results)

\* C22 as stated: a sleep follows every identity of a batch but the last, and
\* its duration d satisfies 0.8 * base <= d <= 1.2 * base.  (Violated: for a
\* base that is not a multiple of 5 ms the two limits are not whole numbers
\* and Math.floor takes d below the lower one.)
C22_JitterWithinBounds ==
  entry = "batch" =>
    /\ sleepCount = SleepsSoFar
    /\ SummaryLogged => sleepCount = nWallets - 1
    /\ pc = "walletSleep" =>
         /\ 4 * config.delayBetweenWallets <= 5 * walletDelay
         /\ 5 * walletDelay <= 6 * config.delayBetweenWallets

\* What holds of the sleeps for every base: their number and their place, and
\* the limits rounded to whole milliseconds, floor(0.8 * base) and
\* ceil(1.2 * base).
C22_SleepsBetweenWallets ==
  entry = "batch" =>
    /\ sleepCount = SleepsSoFar
    /\ SummaryLogged => sleepCount = nWallets - 1
    /\ pc = "walletSleep" =>
         /\ 4 * config.delayBetweenWallets < 5 * (walletDelay + 1)
         /\ 5 * (walletDelay - 1) < 6 * config.delayBetweenWallets

\* ------------------------------------------------- one pass per batch
NoRepeatedCall == \A m, n \in 1..Len(calls) : calls[m] = calls[n] => m = n

\* C23: a batch calls processWallet once per identity, in the order of the
\* input list: the calls that returned are those of identities 1..k in that
\* order, the one in progress is for the next identity, a failed identity is
\* not run again, and within one processWallet no remote operation is issued
\* twice: requests are repeated by withRetry alone, at most maxRetries times.
C23_OncePerBatchInOrder ==
  entry = "batch" =>
    /\ \A k \in 1..Len(walletsWithProxies) : walletsWithProxies[k].wallet = k
    /\ \A k \in 1..Len(results) : results[k].wallet = k
    /\ Len(results) = (IF pc = "walletSleep" THEN idx + 1 ELSE idx)
    /\ Len(results) <= nWallets
    /\ SummaryLogged => Len(results) = nWallets
    /\ NoRepeatedCall
    /\ calls # <<>> => calls[1] = "pwStatus"
    /\ invoked <= config.maxRetries + 1

\* A batch of two identities ended: the first failed after its retries and
\* was not run again, the second went through the whole workflow.
C23_Witness ==
  /\ SummaryLogged
  /\ Len(results) = 2
  /\ ~results[1].ret
  /\ results[2].wallet = 2
  /\ results[2].wf = "success"
  /\ config.maxRetries > 0

\* ------------------------------------------------- egress-IP probe
\* the probe did not produce an address
ProbeFailed(probe) == probe.rejected \/ probe.status # 200 \/ probe.data # "ip"

\* C24: however the probe request fails, checkIpWithProxy returns null and
\* does not raise; and the assignment returns one entry per identity, in
\* order, each with the agent of its proxy line bound and a proxyIp that is an
\* address or null, null when there is no agent.
C24_ProbeBestEffort ==
  /\ \A probe \in ProbeResults :
       /\ ~CheckIpWithProxy(probe).raised
       /\ ProbeFailed(probe) => CheckIpWithProxy(probe) = Returns("null")
  /\ (Assigned /\ ProxiesInUse) =>
       /\ Len(walletsWithProxies) = nWallets
       /\ \A k \in 1..nWallets :
            /\ walletsWithProxies[k].wallet = k
            /\ walletsWithProxies[k].proxy = CreateProxyAgent(ProxyFor(k - 1))
            /\ walletsWithProxies[k].proxyIp \in {"ip", "null"}
            /\ walletsWithProxies[k].proxy = NullAgent =>
                 walletsWithProxies[k].proxyIp = "null"

\* The assignment returned three entries: the probe of the first identity
\* failed, its agent is bound all the same, and the probe of a later identity
\* gave an address.
C24_Witness ==
  /\ entry = "assign"
  /\ pc = "done"
  /\ nWallets = 3
  /\ Len(walletsWithProxies) = 3
  /\ walletsWithProxies[1].proxy # NullAgent
  /\ walletsWithProxies[1].proxyIp = "null"
  /\ \E k \in 2..3 : walletsWithProxies[k].proxyIp = "ip"

\* ------------------------------------------------ malformed responses
\* An operation got an answer at the HTTP level and raised on its body: the
\* workflow raised without an error of the transport, or performWalletScan
\* threw on an empty body (caught by the workflow), or the status fetch of
\* processWallet found an empty body.
MalformedRaised ==
  /\ entry \in {"batch", "workflow"}
  /\ thrown = NoError
  /\ \/ pc \in {"done", "walletSleep"} /\ wfResult = "raised"
     \/ pc = "settleSleep" /\ scanThrew
     \/ IdentityDone /\ ~LastResult.statusOk

\* C25 as stated: the error of a malformed response is raised after exactly
\* one HTTP request of the operation and without a backoff sleep.  (Violated:
\* the first request failed in the transport and was retried, the answer to
\* the second request was malformed.)
C25_MalformedAfterOneRequest ==
  MalformedRaised => (invoked = 1 /\ sleeps = <<>>)

\* C25 amended: a malformed response is not retried.  It is the answer to
\* the last request of its operation: every earlier request of the operation
\* failed in the transport and was followed by one sleep, no sleep and no
\* request follows the malformed answer; when no request failed in the
\* transport there was exactly one request and no sleep.
C25_MalformedNotRetried ==
  MalformedRaised =>
    /\ invoked = Len(errors) + 1
    /\ Len(sleeps) = Len(errors)
    /\ calls[Len(calls)] = op
    /\ attempt = invoked
    /\ errors = <<>> => (invoked = 1 /\ sleeps = <<>>)

\* registerTracking answered without a trackingId on its first request: the
\* workflow raised after that one request, with retries left and no sleep.
C25_Witness ==
  /\ MalformedRaised
  /\ op = "tracking"
  /\ trackingResp = "noToken"
  /\ config.maxRetries > 0
  /\ invoked = 1
  /\ sleeps = <<>>

\* ------------------------------------------------ log de-duplication
InCache(cache, key) == \E n \in 1..Len(cache) : cache[n] = key
LoggedKey == LogKey(logged.address, logged.message)
\* the last MaxRememberedLogs elements of a list
Newest(list) ==
  IF Len(list) <= MaxRememberedLogs THEN list
  ELSE SubSeq(list, Len(list) - MaxRememberedLogs + 1, Len(list))

\* C26: after any sequence of log calls lastLogMessages holds at most 5 keys,
\* all distinct; two calls have the same key only if they have the same
\* address and the same message; a call whose key was in the cache leaves the
\* cache as it was, any other call appends its key and drops the oldest key
\* when there were 5; a call is dropped exactly when its key was in the cache
\* and its type is not error, so that an error is always written.
C26_LogCache ==
  /\ Len(lastLogMessages) <= MaxRememberedLogs
  /\ \A m, n \in 1..Len(lastLogMessages) :
       lastLogMessages[m] = lastLogMessages[n] => m = n
  /\ \A a1, a2 \in LogAddresses : \A m1, m2 \in LogMessages :
       LogKey(a1, m1) = LogKey(a2, m2) => (a1 = a2 /\ m1 = m2)
  /\ logged # NoLog =>
       /\ lastLogMessages =
            (IF InCache(logged.before, LoggedKey) THEN logged.before
             ELSE Newest(logged.before \o <<LoggedKey>>))
       /\ ~logged.written <=>
            (logged.type # "error" /\ InCache(logged.before, LoggedKey))
       /\ logged.type = "error" => logged.written

\* A sixth key arrived at a full cache: the line was written and the oldest
\* key was evicted.
C26_Witness ==
  /\ entry = "log"
  /\ Len(logged.before) = MaxRememberedLogs
  /\ ~InCache(logged.before, LoggedKey)
  /\ lastLogMessages = Tail(logged.before) \o <<LoggedKey>>
  /\ logged.written
  /\ logged.type = "info"

\* ---------------------------------------------------- force precedence
\* C27: with the forceScan argument or config.scan.forceRescan true the
\* workflow never ends skipped, whatever the snapshot says; it ends skipped
\* only on a snapshot with hasDoneDailyScan and nothing forced.  The test of
\* processWallet and the test of the workflow give the same answer for every
\* snapshot and flag (processWallet passes the flag as forceScan), so a
\* workflow called from processWallet never skips, and processWallet leaves
\* the workflow out exactly when the workflow would have skipped.
C27_ForcePrecedence ==
  /\ (forceScan \/ config.forceRescan) => wfResult # "skipped"
  /\ wfResult = "skipped" => (leaderboardInfo.hasDoneDailyScan /\ NoForce)
  /\ (~leaderboardInfo.empty /\ ~NoForce /\ pc = "done" /\ entry = "workflow"
        /\ trackingResp = "token") => Issued("dashboard")
  /\ \A info \in Snapshots : \A cfgForce \in BOOLEAN :
       BatchSkips(info, cfgForce) <=> ShouldSkip(info, cfgForce, cfgForce)
  /\ entry = "batch" =>
       /\ Issued("tracking") => forceScan = config.forceRescan
       /\ wfResult # "skipped"
       /\ (IdentityDone /\ LastResult.statusOk /\ config.scanEnabled) =>
            (LastResult.wf = "none"
               <=> ShouldSkip(pwInfo, config.forceRescan, config.forceRescan))

\* The workflow was called with forceScan on a snapshot that has the daily
\* scan done, config.scan.forceRescan being off: it did not skip and went
\* through to its verdict.
C27_Witness ==
  /\ entry = "workflow"
  /\ forceScan
  /\ ~config.forceRescan
  /\ leaderboardInfo.hasDoneDailyScan
  /\ calls = <<"tracking", "dashboard", "scan", "verify">>
  /\ wfResult = "success"

\* ------------------------------------------------ verification fetch
\* the post-action status fetch failed: withRetry threw on its last attempt
VerifyFailed == op = "verify" /\ thrown # NoError

\* C28: when the post-action status fetch fails after its retries the
\* workflow raises the error of the last attempt and has no verdict, neither
\* success nor failure, whether performWalletScan returned or threw; a
\* verdict is given only on a post-action snapshot that arrived.
C28_VerifyFailureRaises ==
  /\ VerifyFailed =>
       /\ wfResult = "raised"
       /\ updatedLeaderboard = NoSnapshot
       /\ Len(errors) = config.maxRetries + 1
       /\ thrown = errors[Len(errors)]
       /\ Len(sleeps) = config.maxRetries
       /\ entry = "workflow" => pc = "done"
       /\ entry = "batch" => (IdentityDone /\ LastResult.wf = "raised")
  /\ wfResult \in {"success", "failure"} =>
       /\ op = "verify"
       /\ thrown = NoError
       /\ ~updatedLeaderboard.empty

\* performWalletScan returned with a body, the status fetch after it failed
\* on its first attempt and on its retry: the workflow raised.
C28_Witness ==
  /\ entry = "workflow"
  /\ VerifyFailed
  /\ ~scanThrew
  /\ calls[Len(calls) - 1] = "scan"
  /\ config.maxRetries > 0
  /\ Len(errors) = 2
  /\ wfResult = "raised"

\* --------------------------------------------------- session priming
\* getBasicDashboard failed: its post threw after the retries, or the
\* response was empty
PrimingFailed ==
  \/ op = "dashboard" /\ thrown # NoError
  \/ dashboardResp = "empty"

\* C29: when getBasicDashboard fails after its retries or gets an empty body
\* the workflow raises, and neither performWalletScan nor the post-action
\* status fetch is called in that run: getBasicDashboard stays the last
\* remote operation of the run.
C29_PrimingFailureAborts ==
  PrimingFailed =>
    /\ wfResult = "raised"
    /\ ~Issued("scan")
    /\ ~Issued("verify")
    /\ calls[Len(calls)] = "dashboard"
    /\ ~scanThrew
    /\ updatedLeaderboard = NoSnapshot
    /\ pc \notin {"request", "retrySleep", "settleSleep"}
    /\ thrown # NoError => Len(errors) = config.maxRetries + 1

\* getBasicDashboard failed on its first attempt and on its retry: the
\* workflow raised with getBasicDashboard as its last remote operation.
C29_Witness ==
  /\ entry = "workflow"
  /\ op = "dashboard"
  /\ thrown # NoError
  /\ config.maxRetries > 0
  /\ calls = <<"tracking", "wfStatus", "dashboard">>
  /\ wfResult = "raised"
  /\ pc = "done"

\* ------------------------------------------------ initial status fetch
\* the first status fetch of the identity just processed failed after its
\* retries
FirstStatusFailed == IdentityDone /\ op = "pwStatus" /\ thrown # NoError
Successes == Cardinality({k \in 1..Len(results) : results[k].ret})

\* C30: when processWallet's status fetch fails after its retries the
\* identity is not counted as successful, and get-tracking-id,
\* get-basic-dashboard and the scan are not called for it: the status fetch
\* is the only remote operation of that identity.
C30_StatusFailureNotCounted ==
  /\ FirstStatusFailed =>
       /\ ~LastResult.ret
       /\ ~LastResult.statusOk
       /\ LastResult.wf = "none"
       /\ wfResult = "none"
       /\ calls = <<"pwStatus">>
       /\ Len(errors) = config.maxRetries + 1
  /\ entry = "batch" =>
       /\ successCount = Successes
       /\ SummaryLogged => summary = <<Successes, nWallets>>

\* The first identity of a batch of two failed its status fetch twice: it is
\* not counted and the batch waits before the second identity.
C30_Witness ==
  /\ FirstStatusFailed
  /\ config.maxRetries > 0
  /\ nWallets = 2
  /\ Len(results) = 1
  /\ successCount = 0
  /\ pc = "walletSleep"

\* ------------------------------------------------------ first success
\* C31: withRetry returns as soon as one attempt of fn returns, with that
\* attempt's result: the attempt that returned is the last one made, every
\* earlier attempt failed and was followed by one sleep, no sleep follows the
\* one that returned, and the value returned is what fn resolved with,
\* whatever failed before.
C31_StopsAtFirstSuccess ==
  entry = "retry" =>
    /\ returned # NoReturn <=> (pc = "done" /\ thrown = NoError)
    /\ returned # NoReturn =>
         /\ returned.value = returned.fn
         /\ returned.value \in BodyResponses
         /\ invoked = Len(errors) + 1
         /\ attempt = invoked
         /\ Len(sleeps) = Len(errors)
         /\ invoked <= config.maxRetries + 1

\* Two attempts failed with different errors, the third returned a body:
\* withRetry returned that body after three calls of fn and two sleeps.
C31_Witness ==
  /\ entry = "retry"
  /\ pc = "done"
  /\ returned = [fn |-> "body", value |-> "body"]
  /\ Len(errors) = 2
  /\ errors[1] # errors[2]
  /\ invoked = 3
  /\ Len(sleeps) = 2

\* -------------------------------------------------- batch termination
BatchFinished == entry = "batch" /\ pc = "done"
\* the identity whose remote operations are in calls
CallsIdentity == IF pc = "done" THEN nWallets ELSE idx + 1
\* the egress-IP probes made for identity w: one when it has an agent
\* (lib/proxy.js:214-215), sent straight through axios, outside withRetry
Probes(w) ==
  IF w \in 1..Len(walletsWithProxies) /\ walletsWithProxies[w].proxy # NullAgent
    THEN 1 ELSE 0
\* The HTTP requests issued so far for the identity of calls are at least
\* these (one per earlier operation) and at most these (maxRetries + 1 per
\* earlier operation); with maxRetries = 0 the two are the exact number.
RequestsAtLeast == Probes(CallsIdentity) + (Len(calls) - 1) + invoked
RequestsAtMost ==
  Probes(CallsIdentity) + (Len(calls) - 1) * (config.maxRetries + 1) + invoked

\* C32 as stated, its bound: at most 5 * (maxRetries + 1) HTTP requests are
\* issued for an identity.  (Violated: with a proxy agent the egress-IP probe
\* is a sixth kind of request; with maxRetries = 0 the five operations and
\* the probe make 6 requests.)
C32_RequestBound ==
  (entry = "batch" /\ calls # <<>>) =>
    RequestsAtLeast <= 5 * (config.maxRetries + 1)

\* C32 amended: every batch finishes, given that requests, probes and sleeps
\* end; an identity has at most five remote operations, all different, each
\* of at most maxRetries + 1 requests, and at most one egress-IP probe: at
\* most 5 * (maxRetries + 1) requests for an identity without a proxy agent,
\* one more for an identity with one.
C32_BatchTerminates ==
  /\ <>BatchFinished
  /\ [](entry = "batch" =>
          /\ Len(calls) <= 5
          /\ NoRepeatedCall
          /\ \A n \in 1..Len(calls) :
               calls[n] \in {"pwStatus", "tracking", "dashboard", "scan", "verify"}
          /\ invoked <= config.maxRetries + 1
          /\ calls # <<>> =>
               /\ RequestsAtMost <= 5 * (config.maxRetries + 1) + Probes(CallsIdentity)
               /\ RequestsAtMost <= 5 * (config.maxRetries + 1) + 1)

\* A batch of two identities with proxy agents has finished; the last
\* identity went through its five operations, the last of which was retried.
C32_Witness ==
  /\ BatchFinished
  /\ SummaryLogged
  /\ nWallets = 2
  /\ Probes(1) = 1
  /\ Probes(2) = 1
  /\ calls = <<"pwStatus", "tracking", "dashboard", "scan", "verify">>
  /\ config.maxRetries > 0
  /\ invoked = config.maxRetries + 1

====
